---- MODULE Spec2Model ----
(***************************************************************************)
(* A model of the session automation controller of FB-Automation:          *)
(* FacebookController.login / sendMessage / sendFriendRequest and          *)
(* FriendController.sendFriendRequest, driven against a page whose answers *)
(* to every query are chosen by the environment.                           *)
(*                                                                         *)
(* One call runs at a time.  pc is the position inside the running call,   *)
(* log is the sequence of externally visible effects the call has had so   *)
(* far (navigations, waits, typing, clicks, key presses, delays, session   *)
(* persistence, screenshots), result is the value the call returned.       *)
(* A JavaScript object is a record whose DOMAIN is the set of keys the     *)
(* object has; JavaScript null is the string Null.                         *)
(***************************************************************************)
EXTENDS Integers, Sequences, FiniteSets, TLC

VARIABLES
    pc,          \* position of the running call ("idle", "done", or a step)
    op,          \* the operation being run / last run
    attempt,     \* login: let attempt
    maxRetries,  \* login: parameter maxRetries
    ticks,       \* login: iterations of the outcome polling loop so far
    outcome,     \* login: the value doLoginOnce returned
    ends,        \* login: the outcomes the attempts of this call ended in, in order
    page,        \* what the page shows (set by navigations and clicks)
    page0,       \* what the page showed right after the call's last navigation
    arg,         \* the call's argument, where the code branches on it
    err,         \* the message of the fault caught by the running call
    result,      \* the value returned by the call
    swallowed,   \* some page operation of the running call raised a fault that
                 \* a local catch swallowed
    log,         \* effects of the running call, in order
    dc,          \* detectCaptcha: the locals of the running call and its result
    fm,          \* findMessageInputHandle: the locals of the running call
    th,          \* throttle: the clock, _lastActionAt and the calls in progress
    tr,          \* the transports: the request being handled and its response
    ss,          \* the session store: the session file and the target page
    ut           \* the helpers followed on their own: humanType, login's backoff

vars == <<pc, op, attempt, maxRetries, ticks, outcome, ends, page, page0, arg, err, result,
          swallowed, log, dc, fm, th, tr, ss, ut>>

\* the state of the utilities, which no step of the controller's workflows
\* modelled here changes
utilVars == <<dc, fm, th, tr, ss, ut>>

\* ---------------------------------------------------------------- bounds
\* largest maxRetries a login call is given (the code's default is 2)
MaxRetriesBound == 2
\* most iterations of the outcome polling loop before its deadline passes
MaxTicks == 2
\* most result rows / profile cards a search yields
MaxRows == 2

\* most calls of throttle() in progress at once (requests the server is handling)
MaxCallers == 2
\* most calls of throttle() in a behaviour
MaxCalls == 3
\* most page steps of one request to the HTTP server
MaxPageSteps == 2
\* the last reading of the clock
MaxClock == 8

\* ---------------------------------------------------------------- values
Null == "null"
NoResult == [pending |-> TRUE]
NoOutcome == [pending |-> TRUE]
NoPage == [blank |-> TRUE]

Has(r, k) == k \in DOMAIN r

\* the CaptchaResult values detectCaptcha hands to the polling loop
NotDetected == [detected |-> FALSE]
CaptchaResults ==
    {NotDetected,
     [detected |-> TRUE, method |-> "url", match |-> "checkpoint"],
     [detected |-> TRUE, method |-> "text", match |-> "security check"]}

\* visibility of the input[type='search'] marker
Markers == {"absent", "hidden", "visible"}

\* shot.success ? shot.urlPath : null
ShotRef(shot) == IF shot THEN "urlPath" ELSE Null

\* swallowed after a step in which a local catch may have swallowed a
\* fault (may) or has swallowed one (did)
Swallow(may, did) ==
    \E f \in BOOLEAN : swallowed' = (swallowed \/ did \/ (may /\ f))

\* throttle(): times are in units of 5000 ms
\* this.minMessageIntervalMs = opts.minMessageIntervalMs || 10000
MinMessageIntervalMs == 2
\* the callers of throttle()
Callers == 1..MaxCallers
\* a caller that is not inside throttle()
ThIdleCall == [pc |-> "idle"]
\* the constructor: this._lastActionAt = 0; no call of throttle() yet; the
\* clock, Date.now(), reads later than one interval after time 0
ThInit ==
    [now |-> MinMessageIntervalMs + 1, lastActionAt |-> 0, calls |-> [c \in Callers |-> ThIdleCall],
     entered |-> 0, releases |-> <<>>, lastOp |-> "none"]
\* the transports when their processes start: the browser is being launched,
\* the environment is not read yet, no connection, no request handled
TrIdle ==
    [boot |-> "launching", authToken |-> "unset", conn |-> [state |-> "none"],
     last |-> [via |-> "none", executed |-> FALSE],
     inflight |-> [c \in Callers |-> [pc |-> "none"]]]
\* the session store before its first call: no session file, a page without
\* cookies and with an empty localStorage
SsInit ==
    [op |-> "none", result |-> NoResult, file |-> [state |-> "missing"],
     page |-> [cookies |-> <<>>, storage |-> <<>>],
     saved |-> [none |-> TRUE], before |-> [none |-> TRUE]]

\* a call may start when no call is running
CanCall == pc \in {"idle", "done"}

Init ==
    /\ pc = "idle"
    /\ op = "none"
    /\ attempt = 0
    /\ maxRetries = 0
    /\ ticks = 0
    /\ outcome = NoOutcome
    /\ ends = <<>>
    /\ page = NoPage
    /\ page0 = NoPage
    /\ arg = Null
    /\ err = Null
    /\ result = NoResult
    /\ swallowed = FALSE
    /\ log = <<>>
    /\ dc = [pc |-> "idle"]
    /\ fm = [pc |-> "idle"]
    /\ th = ThInit
    /\ tr = TrIdle
    /\ ss = SsInit
    /\ ut = [fn |-> "none"]

\* ================================================================ login

\* login(email, password, maxRetries): let attempt = 0
LoginCall ==
    /\ CanCall
    /\ \E mr \in 0..MaxRetriesBound : maxRetries' = mr
    /\ pc' = "login_loop"
    /\ op' = "login"
    /\ attempt' = 0
    /\ ticks' = 0
    /\ outcome' = NoOutcome
    /\ ends' = <<>>
    /\ page' = NoPage
    /\ page0' = NoPage
    /\ arg' = Null
    /\ err' = Null
    /\ result' = NoResult
    /\ swallowed' = FALSE
    /\ UNCHANGED utilVars
    /\ log' = <<>>

\* the catch of login's try: return { success: false, error: err.message }
LoginCatch(msg) == [success |-> FALSE, error |-> msg]

\* a fault that is retried while retries remain
LoginThrow_Retry(msg, events) ==
    /\ pc' = IF attempt < maxRetries THEN "login_loop" ELSE "done"
    /\ attempt' = IF attempt < maxRetries THEN attempt + 1 ELSE attempt
    /\ err' = msg
    /\ result' = LoginCatch(msg)
    /\ log' = log \o events
    /\ UNCHANGED utilVars
    /\ UNCHANGED <<op, maxRetries, ticks, outcome, ends, page, page0, arg, swallowed>>

\* a page operation of doLoginOnce threw
LoginThrow(msg, events) ==
    /\ pc' = "done"
    /\ err' = msg
    /\ result' = LoginCatch(msg)
    /\ log' = log \o events
    /\ UNCHANGED utilVars
    /\ UNCHANGED <<op, attempt, maxRetries, ticks, outcome, ends, page, page0, arg, swallowed>>

\* while (attempt <= maxRetries) { try { doLoginOnce() ...; after the loop:
\* return { success: false, error: "max_retries_exceeded" }
LoginLoop ==
    /\ pc = "login_loop"
    /\ IF attempt <= maxRetries
       THEN /\ pc' = "dlo_goto"
            /\ log' = Append(log, "attempt")
            /\ result' = result
            /\ ticks' = 0
       ELSE /\ pc' = "done"
            /\ log' = log
            /\ result' = [success |-> FALSE, error |-> "max_retries_exceeded"]
            /\ ticks' = ticks
    /\ UNCHANGED utilVars
    /\ UNCHANGED <<op, attempt, maxRetries, outcome, ends, page, page0, arg, err, swallowed>>

\* doLoginOnce: page.goto(login), page.$("input[type='search']") and the
\* visibility check
DloGoto ==
    /\ pc = "dlo_goto"
    /\ \/ LoginThrow("goto_failed", <<"goto_login">>)
       \/ LoginThrow("query_failed", <<"goto_login", "query_marker">>)
       \/ \E m \in Markers :
            /\ page' = [surface |-> "login", marker |-> m]
            /\ page0' = page'
            /\ log' = log \o <<"goto_login", "query_marker">>
            /\ IF m = "visible"
               THEN /\ outcome' = [alreadyLoggedIn |-> TRUE, success |-> TRUE]
                    /\ pc' = "login_dispatch"
               ELSE /\ outcome' = outcome
                    /\ pc' = "dlo_wait"
            /\ Swallow(m = "hidden", FALSE)
            /\ UNCHANGED utilVars
            /\ UNCHANGED <<op, attempt, maxRetries, ticks, ends, arg, err, result>>

\* waitForSelector("#email"), waitForSelector("#pass")
DloWait ==
    /\ pc = "dlo_wait"
    /\ \/ LoginThrow("timeout_email", <<"wait_email">>)
       \/ LoginThrow("timeout_pass", <<"wait_email", "wait_pass">>)
       \/ /\ pc' = "dlo_type"
          /\ log' = log \o <<"wait_email", "wait_pass">>
          /\ UNCHANGED utilVars
          /\ UNCHANGED <<op, attempt, maxRetries, ticks, outcome, ends, page, page0, arg, err, result,
                      swallowed>>

\* humanType(#email), humanType(#pass), smallHumanMove, click([name=login])
DloType ==
    /\ pc = "dlo_type"
    /\ \/ LoginThrow("humanType: handle not found", <<>>)
       \/ LoginThrow("humanType: handle not found", <<"type_email">>)
       \/ LoginThrow("click_failed", <<"type_email", "type_pass", "move">>)
       \/ /\ pc' = "poll"
          /\ log' = log \o <<"type_email", "type_pass", "move", "click_login">>
          /\ UNCHANGED utilVars
          /\ UNCHANGED <<op, attempt, maxRetries, ticks, outcome, ends, page, page0, arg, err, result,
                      swallowed>>

\* a tick that checks for the captcha before the success marker
ClassifyTick_CaptchaFirst(snap) ==
    IF snap.captcha.detected
    THEN [outcome |-> "captcha", captcha |-> snap.captcha]
    ELSE IF snap.marker = "visible" THEN [outcome |-> "success"]
    ELSE IF snap.invalid
         THEN [outcome |-> "invalid_credentials", snippet |-> "incorrect"]
    ELSE NoOutcome

\* one tick of waitForLoginOutcome on a snapshot of the page: the checks in
\* the order of the loop body; NoOutcome when none is positive
ClassifyTick(snap) ==
    IF snap.marker = "visible" THEN [outcome |-> "success"]
    ELSE IF snap.captcha.detected
         THEN [outcome |-> "captcha", captcha |-> snap.captcha]
    ELSE IF snap.invalid
         THEN [outcome |-> "invalid_credentials", snippet |-> "incorrect"]
    ELSE NoOutcome

\* detectCaptcha captures a screenshot on every positive detection
TickEvents(snap) ==
    IF snap.marker # "visible" /\ snap.captcha.detected
    THEN <<"tick", "screenshot">> ELSE <<"tick">>

Snapshots == [marker : Markers, captcha : CaptchaResults, invalid : BOOLEAN]

\* waitForLoginOutcome: the loop runs while the deadline has not passed
Poll ==
    /\ pc = "poll"
    /\ \/ /\ ticks < MaxTicks
          /\ \E snap \in Snapshots :
               /\ ticks' = ticks + 1
               /\ log' = log \o TickEvents(snap)
               /\ page' = [surface |-> "login", marker |-> snap.marker,
                            captcha |-> snap.captcha.detected, invalid |-> snap.invalid]
               /\ Swallow(snap.marker # "visible", FALSE)
               /\ IF ClassifyTick(snap) = NoOutcome
                  THEN pc' = "poll" /\ outcome' = outcome
                  ELSE pc' = "login_dispatch" /\ outcome' = ClassifyTick(snap)
       \/ /\ ticks >= 1
          /\ outcome' = [outcome |-> "timeout"]
          /\ pc' = "login_dispatch"
          /\ UNCHANGED <<ticks, log, page, swallowed>>
    /\ UNCHANGED utilVars
    /\ UNCHANGED <<op, attempt, maxRetries, ends, page0, arg, err, result>>

IsCaptchaOutcome(o) ==
    \/ Has(o, "outcome") /\ o.outcome = "captcha"
    \/ Has(o, "captcha") /\ o.captcha.detected

\* Each branch of the body of login's loop gives: ret (the call returns
\* result) or not (the loop continues with the new attempt), after the events.

\* a success that captures a screenshot
OnSuccess_Capture(att) ==
    [ret |-> TRUE, attempt |-> att, events |-> <<"screenshot", "persist">>,
     result |-> [success |-> TRUE]]

OnSuccess_NoPersist(att) ==
    [ret |-> TRUE, attempt |-> att, events |-> <<>>, result |-> [success |-> TRUE]]

\* if (outcome.success || outcome.outcome === "success")
OnSuccess(att) ==
    [ret |-> TRUE, attempt |-> att, events |-> <<"persist">>,
     result |-> [success |-> TRUE]]

\* if (outcome.alreadyLoggedIn)
OnAlreadyLoggedIn(att) ==
    [ret |-> TRUE, attempt |-> att, events |-> <<"persist">>,
     result |-> [success |-> TRUE, alreadyLoggedIn |-> TRUE]]

OnCaptcha_OffByOne(o, att, mr, shot) ==
    IF att <= mr
    THEN [ret |-> FALSE, attempt |-> att + 1,
          events |-> <<"screenshot", "backoff", "clear_storage", "clear_cookies">>,
          result |-> NoResult]
    ELSE [ret |-> TRUE, attempt |-> att, events |-> <<"screenshot">>,
          result |-> [success |-> FALSE, error |-> "captcha_detected",
                      screenshot |-> ShotRef(shot),
                      detail |-> IF Has(o, "captcha") THEN o.captcha ELSE Null]]

\* the captcha branch: screenshot, then backoff, clearing and retry, or the
\* terminal captcha_detected failure
OnCaptcha(o, att, mr, shot) ==
    IF att < mr
    THEN [ret |-> FALSE, attempt |-> att + 1,
          events |-> <<"screenshot", "backoff", "clear_storage", "clear_cookies">>,
          result |-> NoResult]
    ELSE [ret |-> TRUE, attempt |-> att, events |-> <<"screenshot">>,
          result |-> [success |-> FALSE, error |-> "captcha_detected",
                      screenshot |-> ShotRef(shot),
                      detail |-> IF Has(o, "captcha") THEN o.captcha ELSE Null]]

OnInvalid_Retry(o, att, mr) ==
    IF att < mr
    THEN [ret |-> FALSE, attempt |-> att + 1, events |-> <<"delay">>, result |-> NoResult]
    ELSE [ret |-> TRUE, attempt |-> att, events |-> <<>>,
          result |-> [success |-> FALSE, error |-> "invalid_credentials",
                      detail |-> IF Has(o, "snippet") THEN o.snippet ELSE Null]]

\* if (outcome.outcome === "invalid_credentials")
OnInvalid(o, att, mr) ==
    [ret |-> TRUE, attempt |-> att, events |-> <<>>,
     result |-> [success |-> FALSE, error |-> "invalid_credentials",
                 detail |-> IF Has(o, "snippet") THEN o.snippet ELSE Null]]

OnTimeout_MaxRetries(att, mr) ==
    IF att < mr
    THEN [ret |-> FALSE, attempt |-> att + 1, events |-> <<"delay">>, result |-> NoResult]
    ELSE [ret |-> TRUE, attempt |-> att, events |-> <<>>,
          result |-> [success |-> FALSE, error |-> "max_retries_exceeded"]]

\* if (outcome.outcome === "timeout")
OnTimeout(att, mr) ==
    IF att < mr
    THEN [ret |-> FALSE, attempt |-> att + 1, events |-> <<"delay">>, result |-> NoResult]
    ELSE [ret |-> TRUE, attempt |-> att, events |-> <<>>,
          result |-> [success |-> FALSE, error |-> "timeout"]]

\* Unknown case: fail safe
OnUnknown(o, att) ==
    [ret |-> TRUE, attempt |-> att, events |-> <<>>,
     result |-> [success |-> FALSE, error |-> "unknown_outcome", detail |-> o]]

\* the body of login's loop after doLoginOnce returned o, in the order of the
\* code's if statements
LoginDispatch(o, att, mr, shot) ==
    IF (Has(o, "success") /\ o.success) \/ (Has(o, "outcome") /\ o.outcome = "success")
    THEN OnSuccess(att)
    ELSE IF Has(o, "alreadyLoggedIn") /\ o.alreadyLoggedIn
    THEN OnAlreadyLoggedIn(att)
    ELSE IF IsCaptchaOutcome(o)
    THEN OnCaptcha(o, att, mr, shot)
    ELSE IF Has(o, "outcome") /\ o.outcome = "invalid_credentials"
    THEN OnInvalid(o, att, mr)
    ELSE IF Has(o, "outcome") /\ o.outcome = "timeout"
    THEN OnTimeout(att, mr)
    ELSE OnUnknown(o, att)

LoginStep ==
    /\ pc = "login_dispatch"
    /\ \E shot \in BOOLEAN :
         LET d == LoginDispatch(outcome, attempt, maxRetries, shot) IN
           /\ log' = log \o d.events
           /\ attempt' = d.attempt
           /\ result' = d.result
           /\ pc' = IF d.ret THEN "done" ELSE "login_loop"
           /\ Swallow(\E i \in DOMAIN d.events :
                        d.events[i] \in {"persist", "clear_storage", "clear_cookies"},
                      FALSE)
    /\ ends' = Append(ends, outcome)
    /\ UNCHANGED utilVars
    /\ UNCHANGED <<op, maxRetries, ticks, outcome, page, page0, arg, err>>

\* ================================================================ shared

\* a call other than login starts: everything the call owns is reset
StartCall(name, a, first, events) ==
    /\ CanCall
    /\ op' = name
    /\ arg' = a
    /\ pc' = first
    /\ log' = events
    /\ attempt' = 0
    /\ maxRetries' = 0
    /\ ticks' = 0
    /\ outcome' = NoOutcome
    /\ ends' = <<>>
    /\ page' = NoPage
    /\ page0' = NoPage
    /\ err' = Null
    /\ result' = NoResult
    /\ swallowed' = FALSE
    /\ UNCHANGED utilVars

\* return res after the events
Return(res, events) ==
    /\ pc' = "done"
    /\ result' = res
    /\ log' = log \o events
    /\ UNCHANGED utilVars
    /\ UNCHANGED <<op, attempt, maxRetries, ticks, outcome, ends, arg>>

\* go on to the step next after the events
Goto(next, events) ==
    /\ pc' = next
    /\ log' = log \o events
    /\ UNCHANGED utilVars
    /\ UNCHANGED <<op, attempt, maxRetries, ticks, outcome, ends, arg, result>>

\* ================================================================ sendFriendRequest

\* addFriendButtons is declared nowhere in the module: the declaration is
\* commented out, and evaluating the name raises a ReferenceError
AddFriendButtonsDeclared == FALSE

\* the outer catch of sendFriendRequest; captureScreenshot does not throw
SfrCatch(msg, shot) ==
    [status |-> "failed", message |-> "Exception while sending friend request",
     error |-> msg, screenshot |-> ShotRef(shot), profile |-> "profileName"]

SfrThrow(msg, events) ==
    /\ \E shot \in BOOLEAN : Return(SfrCatch(msg, shot), events \o <<"screenshot">>)
    /\ err' = msg
    /\ UNCHANGED <<page, page0, swallowed>>

SfrNoButton_NoProfileCard ==
    [status |-> "failed", message |-> "No profile card found",
     error |-> "no_profile_card"]

\* if (!addFriendBtn) return {...}
SfrNoButton ==
    [status |-> "failed", message |-> "No 'Add friend' button found",
     error |-> "no_add_friend_button"]

\* if (alreadyFriend) return {...}
SfrAlreadyFriend ==
    [status |-> "success", message |-> "Already friends with this user",
     error |-> Null, profile |-> "profileName"]

\* the final return of sendFriendRequest
SfrSent(requestConfirmed) ==
    [status |-> "success",
     message |-> IF requestConfirmed THEN "Friend request sent and confirmed"
                 ELSE "Friend request sent (unconfirmed)",
     error |-> Null, profile |-> "profileName"]

\* the controls of the search surface the workflow reads
SearchPages ==
    [surface : {"search"}, addBtn : BOOLEAN, friends : BOOLEAN, sent : BOOLEAN]

\* sendFriendRequest(profileName): wait, throttle
SfrCall == StartCall("sendFriendRequest", Null, "sfr_goto", <<"throttle">>)

\* page.goto(searchUrl), wait, page.$$(cardXpath), page.$(add friend button)
SfrGoto ==
    /\ pc = "sfr_goto"
    /\ \/ SfrThrow("goto_failed", <<"goto_search">>)
       \/ SfrThrow("query_failed", <<"goto_search", "query_cards">>)
       \/ SfrThrow("query_failed", <<"goto_search", "query_cards", "query_add_btn">>)
       \/ \E p \in SearchPages :
            /\ page' = p
            /\ page0' = p
            /\ err' = err
            /\ swallowed' = swallowed
            /\ IF ~p.addBtn
               THEN Return(SfrNoButton, <<"goto_search", "query_cards", "query_add_btn">>)
               ELSE Goto("sfr_click", <<"goto_search", "query_cards", "query_add_btn">>)

\* await addFriendBtn.click(); wait: the page reacts to the click
SfrClick ==
    /\ pc = "sfr_click"
    /\ \/ SfrThrow("click_failed", <<"click_add">>)
       \/ \E f \in BOOLEAN, s \in BOOLEAN :
            /\ page' = [page EXCEPT !.friends = f, !.sent = s]
            /\ Goto("sfr_scan", <<"click_add">>)
            /\ UNCHANGED <<page0, err, swallowed>>

\* the alreadyFriend scan, then addFriendButtons[0].click(), the confirmation
\* scan (faults swallowed), persistSession and the final return
SfrScan ==
    /\ pc = "sfr_scan"
    /\ \/ SfrThrow("evaluate_failed", <<"scan_friends">>)
       \/ IF page.friends
          THEN /\ Return(SfrAlreadyFriend, <<"scan_friends">>)
               /\ UNCHANGED <<page, page0, err, swallowed>>
          ELSE IF ~AddFriendButtonsDeclared
          THEN SfrThrow("addFriendButtons is not defined", <<"scan_friends">>)
          ELSE \E confirmed \in {FALSE, page.sent} :
                 /\ Return(SfrSent(confirmed),
                           <<"scan_friends", "click_add", "scan_sent", "persist">>)
                 /\ UNCHANGED <<page, page0, err, swallowed>>

\* ================================================================ FriendController

FcCatch(msg, shot) == [success |-> FALSE, error |-> msg, screenshot |-> ShotRef(shot)]

FcThrow(msg, events) ==
    /\ \E shot \in BOOLEAN : Return(FcCatch(msg, shot), events \o <<"screenshot">>)
    /\ err' = msg
    /\ UNCHANGED <<page, page0, swallowed>>

FcNoButton(shot) ==
    [success |-> FALSE, error |-> "no_add_friend_button", screenshot |-> ShotRef(shot)]

\* FriendController.sendFriendRequest(target): target is a URL or a name
FcCall == \E t \in {"url", "name"} : StartCall("friendRequest", t, "fc_nav", <<>>)

\* the navigation to the profile, directly or through the people search
FcNav ==
    /\ pc = "fc_nav"
    /\ \/ /\ arg = "url"
          /\ \/ FcThrow("goto_failed", <<"goto_profile">>)
             \/ /\ Goto("fc_find", <<"goto_profile">>)
                /\ UNCHANGED <<page, page0, err, swallowed>>
       \/ /\ arg = "name"
          /\ \/ FcThrow("goto_failed", <<"goto_people_search">>)
             \/ FcThrow("timeout_cards", <<"goto_people_search", "wait_cards">>)
             \/ FcThrow("goto_failed", <<"goto_people_search", "wait_cards", "goto_profile">>)
             \/ /\ Goto("fc_find", <<"goto_people_search", "wait_cards", "goto_profile">>)
                /\ UNCHANGED <<page, page0, err, swallowed>>

\* the button selector loop (faults swallowed), then the click
FcFind ==
    /\ pc = "fc_find"
    /\ \E found \in BOOLEAN :
         /\ page' = [surface |-> "profile", addBtn |-> found]
         /\ page0' = page'
         /\ Swallow(TRUE, FALSE)
         /\ IF ~found
            THEN /\ \E shot \in BOOLEAN :
                      Return(FcNoButton(shot), <<"query_add_btn", "screenshot">>)
                 /\ err' = err
            ELSE \/ /\ \E shot \in BOOLEAN :
                         Return(FcCatch("click_failed", shot),
                                <<"query_add_btn", "click_add", "screenshot">>)
                    /\ err' = "click_failed"
                 \/ /\ Return([success |-> TRUE], <<"query_add_btn", "click_add">>)
                    /\ err' = err

\* ================================================================ sendMessage

SmCatch_Rethrow(msg, shot) == [thrown |-> msg]

\* the outer catch of sendMessage; captureScreenshot does not throw
SmCatch(msg, shot) == [success |-> FALSE, error |-> msg, screenshot |-> ShotRef(shot)]

SmThrow(msg, events) ==
    /\ \E shot \in BOOLEAN : Return(SmCatch(msg, shot), events \o <<"screenshot">>)
    /\ err' = msg
    /\ UNCHANGED <<page, page0, swallowed>>

\* the structured failures of the pipeline, each after a screenshot
SmFail(code, shot) == [success |-> FALSE, error |-> code, screenshot |-> ShotRef(shot)]

SmReturnFail(code, events) ==
    /\ \E shot \in BOOLEAN : Return(SmFail(code, shot), events \o <<"screenshot">>)
    /\ err' = err

SmLoginCheck_Skip(loginFields) == "continue"

\* what the login check does with the answer of
\* page.$("#email, input[name='email'], input[type='password']")
SmLoginCheck(loginFields) == IF loginFields THEN "not_logged_in" ELSE "continue"

\* sendMessage(recipient, text): wait, throttle
SmCall == StartCall("sendMessage", Null, "sm_goto", <<"throttle">>)

\* page.goto(messages), the login check
SmGoto ==
    /\ pc = "sm_goto"
    /\ \/ SmThrow("goto_failed", <<"goto_messages">>)
       \/ SmThrow("query_failed", <<"goto_messages", "query_login_fields">>)
       \/ \E lf \in BOOLEAN :
            /\ page' = [surface |-> "messages", loginFields |-> lf]
            /\ page0' = page'
            /\ swallowed' = swallowed
            /\ IF SmLoginCheck(lf) = "not_logged_in"
               THEN SmReturnFail("not_logged_in", <<"goto_messages", "query_login_fields">>)
               ELSE /\ Goto("sm_search", <<"goto_messages", "query_login_fields">>)
                    /\ err' = err

\* the in-app search: wait for the container, find the search control (faults
\* of both swallowed); with a control: clear it, type the recipient, submit,
\* query the rows and click the clickable ancestor of the first row whose
\* lookup does not throw (k rows throw before it)
SmSearch ==
    /\ pc = "sm_search"
    /\ \/ /\ Goto("sm_input", <<"wait_main", "query_search">>)
          /\ Swallow(TRUE, FALSE)
          /\ UNCHANGED <<page, page0, err>>
       \/ SmThrow("focus_failed",
                  <<"wait_main", "query_search", "click_search", "press_Backspace", "focus">>)
       \/ SmThrow("query_failed",
                  <<"wait_main", "query_search", "click_search", "press_Backspace", "focus",
                    "type_recipient", "press_Enter", "query_rows">>)
       \/ \E n \in 0..MaxRows : \E k \in 0..n :
            /\ Goto("sm_input",
                    <<"wait_main", "query_search", "click_search", "press_Backspace", "focus",
                      "type_recipient", "press_Enter", "query_rows">>
                    \o (IF k < n THEN <<"click_row">> ELSE <<>>))
            /\ Swallow(TRUE, k > 0)
            /\ UNCHANGED <<page, page0, err>>

SmAfterFallback_Locate(clicked) == "locate"

\* after the card scan of the global search fallback: if (!clicked) return
\* the no_clickable_row failure, else go on to locate the message input
SmAfterFallback(clicked) == IF ~clicked THEN "no_clickable_row" ELSE "locate"

\* a fallback taken whatever the query answered
SmNeedsFallback_Always(inputExists) == TRUE
\* if (!inputExists) { global search fallback } else { chat likely open }
SmNeedsFallback(inputExists) == ~inputExists

\* is the message input present; if not, the global search fallback: navigate
\* (faults swallowed), query the cards, click the first message-like control
SmInput ==
    /\ pc = "sm_input"
    /\ \/ SmThrow("query_failed", <<"query_input">>)
       \/ \E inputExists \in BOOLEAN :
            IF ~SmNeedsFallback(inputExists)
            THEN /\ Goto("sm_locate", <<"query_input">>)
                 /\ page' = [surface |-> "messages", input |-> inputExists]
                 /\ UNCHANGED <<page0, err, swallowed>>
            ELSE \/ SmThrow("query_failed",
                            <<"query_input", "goto_global_search", "query_cards">>)
                 \/ \E cards \in 0..MaxRows : \E clicked \in BOOLEAN :
                      /\ clicked => cards > 0
                      /\ page' = [surface |-> "global_search", input |-> inputExists]
                      /\ page0' = page'
                      /\ Swallow(TRUE, FALSE)
                      /\ IF SmAfterFallback(clicked) = "no_clickable_row"
                         THEN SmReturnFail("no_clickable_row",
                                           <<"query_input", "goto_global_search",
                                             "query_cards">>)
                         ELSE /\ Goto("sm_locate",
                                      <<"query_input", "goto_global_search", "query_cards">>
                                      \o (IF clicked THEN <<"click_message_btn">> ELSE <<>>))
                              /\ err' = err

\* findMessageInputHandle(page, 10000) returns a handle or null, never throws
SmLocate ==
    /\ pc = "sm_locate"
    /\ page0' = page0
    /\ Swallow(TRUE, FALSE)
    /\ \E handle \in BOOLEAN :
         /\ page' = [surface |-> page.surface, input |-> page.input, handle |-> handle]
         /\ IF ~handle
            THEN SmReturnFail("no_message_input", <<"locate_input">>)
            ELSE /\ Goto("sm_type", <<"locate_input">>)
                 /\ err' = err

SmSendEvents_PersistFirst ==
    <<"focus", "move", "focus", "type_message", "persist", "press_Enter">>

\* the effects of step 5 and 7 of sendMessage in the order of the code:
\* messageHandle.focus(), smallHumanMove, humanType (focus, then the keys),
\* keyboard.press("Enter"), persistSession
SmSendEvents ==
    <<"focus", "move", "focus", "type_message", "press_Enter", "persist">>

\* focus, smallHumanMove, humanType, press Enter, wait, persistSession; a
\* fault of the k-th effect ends the step after it
SmType ==
    /\ pc = "sm_type"
    /\ \/ SmThrow("focus_failed", SubSeq(SmSendEvents, 1, 1))
       \/ SmThrow("type_failed", SubSeq(SmSendEvents, 1, 4))
       \/ SmThrow("press_failed", SubSeq(SmSendEvents, 1, 5))
       \/ /\ Return([success |-> TRUE], SmSendEvents)
          /\ Swallow(TRUE, FALSE)
          /\ UNCHANGED <<page, page0, err>>

Next ==
    \/ LoginCall
    \/ LoginLoop
    \/ DloGoto
    \/ DloWait
    \/ DloType
    \/ Poll
    \/ LoginStep
    \/ SfrCall
    \/ SfrGoto
    \/ SfrClick
    \/ SfrScan
    \/ FcCall
    \/ FcNav
    \/ FcFind
    \/ SmCall
    \/ SmGoto
    \/ SmSearch
    \/ SmInput
    \/ SmLocate
    \/ SmType

Spec == Init /\ [][Next]_vars

\* the steps of a running login call: the event loop runs every continuation
\* that is ready, and every wait of the call returns or times out
LoginRun == LoginLoop \/ DloGoto \/ DloWait \/ DloType \/ Poll \/ LoginStep

SpecLive == Spec /\ WF_vars(LoginRun)

\* ================================================================ detectCaptcha

\* most frames page.frames() yields
MaxFrames == 2
\* most characters of a page's body text
MaxText == 4

\* what reading a value from the page gives: the value, or a thrown fault
Read(v) == [value |-> v]
Fault == [throws |-> TRUE]
NoRead == [none |-> TRUE]
Threw(r) == Has(r, "throws")

\* the characters of texts, one-character strings: a letter in both cases, a
\* letter without case, two kinds of whitespace
Chars == {"a", "A", "z", " ", "\n"}
IsSpace(c) == c \in {" ", "\n"}
ToLowerCase(c) == IF c = "A" THEN "a" ELSE c

\* the texts of at most MaxText characters
Texts == UNION {[1..m -> Chars] : m \in 0..MaxText}

\* the phrase lists, over these characters: a primary-language phrase of two
\* words and a fallback-language phrase
TEXT_PATTERNS_EN == << <<"a", " ", "a">> >>
TEXT_PATTERNS_FA == << <<"z">> >>

RECURSIVE DropSpaces(_)
DropSpaces(s) ==
    IF s # <<>> /\ IsSpace(Head(s)) THEN DropSpaces(Tail(s)) ELSE s

\* replace(/\s+/g, " ")
RECURSIVE ReplaceRuns(_)
ReplaceRuns(s) ==
    IF s = <<>> THEN <<>>
    ELSE IF IsSpace(Head(s)) THEN <<" ">> \o ReplaceRuns(DropSpaces(Tail(s)))
    ELSE <<Head(s)>> \o ReplaceRuns(Tail(s))

\* trim(), of a text whose whitespace runs are single spaces
Trim(s) ==
    LET a == IF s # <<>> /\ s[1] = " " THEN Tail(s) ELSE s
    IN  IF a # <<>> /\ a[Len(a)] = " " THEN SubSeq(a, 1, Len(a) - 1) ELSE a

Normalize_KeepRuns(s) == [i \in DOMAIN s |-> ToLowerCase(s[i])]

\* normalize(s): toLowerCase(), replace(/\s+/g, " "), trim()
Normalize(s) == Trim(ReplaceRuns([i \in DOMAIN s |-> ToLowerCase(s[i])]))

\* s.includes(p)
Includes(s, p) == \E i \in 0..(Len(s) - Len(p)) : SubSeq(s, i + 1, i + Len(p)) = p

\* patterns.some((p) => n.includes(normalize(p)))
SomeIncluded(patterns, n) ==
    \E j \in DOMAIN patterns : Includes(n, Normalize(patterns[j]))

\* the phrase test of the frame and selector tiers on a normalized text
HasPhrase(n) == SomeIncluded(TEXT_PATTERNS_EN, n) \/ SomeIncluded(TEXT_PATTERNS_FA, n)

\* the body tier: the first pattern of [...EN, ...FA], normalized and not
\* empty, that the normalized body includes; <<>> if there is none
FirstPattern(n) ==
    LET patterns == TEXT_PATTERNS_EN \o TEXT_PATTERNS_FA
        hits == {j \in DOMAIN patterns :
                    Normalize(patterns[j]) # <<>> /\ Includes(n, Normalize(patterns[j]))}
    IN  IF n = <<>> \/ hits = {} THEN <<>>
        ELSE Normalize(patterns[CHOOSE j \in hits : \A h \in hits : j <= h])

\* page addresses, and those the pattern
\* /checkpoint|security|login_check|login\/checkpoint|confirm/i tests true on
Urls ==
    {"", "https://www.facebook.com/", "https://www.facebook.com/checkpoint/1501092823525282",
     "https://www.facebook.com/Security/2fac", "https://www.facebook.com/confirmemail.php"}
UrlPattern(url) ==
    url \in {"https://www.facebook.com/checkpoint/1501092823525282",
             "https://www.facebook.com/Security/2fac",
             "https://www.facebook.com/confirmemail.php"}

\* frame addresses, and those a pattern of FRAME_PATTERNS tests true on
FrameAddrs ==
    {"", "https://www.facebook.com/plugins/like.php",
     "https://www.google.com/recaptcha/api2/anchor"}
FRAME_PATTERNS(fu) == fu = "https://www.google.com/recaptcha/api2/anchor"

\* the inner texts of frames and of elements: none, one without a phrase, one
\* with a phrase in mixed case over a whitespace run
SampleTexts == {<<>>, <<"a", "a">>, <<"A", " ", "\n", "a">>}

\* a frame: what f.url() and f.evaluate(body text) give
Frames == [addr : {Read(a) : a \in FrameAddrs} \cup {Fault},
           body : {Read(t) : t \in SampleTexts} \cup {Fault}]

SELECTOR_CANDIDATES ==
    <<"iframe[src*='recaptcha']", "iframe[src*='hcaptcha']", "iframe[src*='captcha']",
      "div[id*='captcha']", "div[class*='captcha']", "div[data-testid*='captcha']",
      "form[action*='checkpoint']", "a[href*='/checkpoint']", "a[href*='checkpoint']">>

\* /iframe/i.test(sel)
IsIframeSelector(sel) ==
    sel \in {"iframe[src*='recaptcha']", "iframe[src*='hcaptcha']", "iframe[src*='captcha']"}

Detected_NoMatch(method, match, shot, snippet) ==
    [detected |-> TRUE, method |-> method, match |-> Null,
     screenshot |-> ShotRef(shot), snippet |-> snippet]

\* the CaptchaResult of a detection; screenshot: shot.success ? shot.urlPath : null
Detected(method, match, shot, snippet) ==
    [detected |-> TRUE, method |-> method, match |-> match,
     screenshot |-> ShotRef(shot), snippet |-> snippet]

\* the locals of a call of detectCaptcha at its start: url, text and el are
\* what the last read of the address, of a text and of a selector gave; k is
\* the index of the frame or selector to check next; tier and at name the last
\* check made; fault: the last step's read threw; faulted: some read threw
DcStart ==
    [pc |-> "url", url |-> NoRead, frames |-> <<>>, k |-> 0, tier |-> "none", at |-> 0,
     el |-> NoRead, text |-> NoRead, fault |-> FALSE, faulted |-> FALSE,
     result |-> NoResult]

\* the controller's state, which detectCaptcha does not touch
ctlVars == <<pc, op, attempt, maxRetries, ticks, outcome, ends, page, page0, arg, err,
             result, swallowed, log>>

\* detectCaptcha(page)
DcCall ==
    /\ dc.pc \in {"idle", "done"}
    /\ dc' = DcStart
    /\ UNCHANGED <<ctlVars, fm, th, tr, ss, ut>>

\* return res from the tier
DcReturn(d, res) == dc' = [d EXCEPT !.pc = "done", !.result = res]

UrlTier_Skipped(read) == FALSE

\* tier 1: url = page.url(), "" if it throws; url && pattern.test(url)
UrlTier(read) ==
    LET url == IF Threw(read) THEN "" ELSE read.value
    IN  url # "" /\ UrlPattern(url)

DcUrl ==
    /\ dc.pc = "url"
    /\ \E read \in {Read(u) : u \in Urls} \cup {Fault}, shot \in BOOLEAN :
         LET d == [dc EXCEPT !.url = read, !.tier = "url", !.fault = Threw(read),
                             !.faulted = Threw(read)]
         IN  IF UrlTier(read)
             THEN DcReturn(d, Detected("url", read.value, shot, Null))
             ELSE dc' = [d EXCEPT !.pc = "frames"]
    /\ UNCHANGED <<ctlVars, fm, th, tr, ss, ut>>

\* tier 2 starts: frames = page.frames(); a fault ends the tier
DcFrames ==
    /\ dc.pc = "frames"
    /\ \/ dc' = [dc EXCEPT !.pc = "selector", !.k = 1, !.tier = "frames",
                           !.fault = TRUE, !.faulted = TRUE]
       \/ \E fs \in UNION {[1..n -> Frames] : n \in 0..MaxFrames} :
            dc' = [dc EXCEPT !.pc = IF fs = <<>> THEN "selector" ELSE "frame",
                             !.k = 1, !.frames = fs, !.tier = "frames", !.fault = FALSE]
    /\ UNCHANGED <<ctlVars, fm, th, tr, ss, ut>>

FrameCheck_TextFirst(f) ==
    IF ~Threw(f.body) /\ HasPhrase(Normalize(f.body.value)) THEN "frame_text"
    ELSE IF Threw(f.addr) THEN "abort"
    ELSE IF FRAME_PATTERNS(f.addr.value) THEN "frame_url"
    ELSE "next"

\* the body of the loop over the frames: the address first (a fault there
\* leaves the loop through the tier's catch), then the frame's text (a fault
\* there is ignored; an empty text continues)
FrameCheck(f) ==
    IF Threw(f.addr) THEN "abort"
    ELSE IF FRAME_PATTERNS(f.addr.value) THEN "frame_url"
    ELSE IF Threw(f.body) THEN "next"
    ELSE IF Normalize(f.body.value) = <<>> THEN "next"
    ELSE IF HasPhrase(Normalize(f.body.value)) THEN "frame_text"
    ELSE "next"

\* one iteration of for (const f of frames)
DcFrame ==
    /\ dc.pc = "frame"
    /\ \E shot \in BOOLEAN :
         LET f == dc.frames[dc.k]
             c == FrameCheck(f)
             fault == Threw(f.addr) \/ (~FRAME_PATTERNS(f.addr.value) /\ Threw(f.body))
             d == [dc EXCEPT !.at = dc.k, !.k = dc.k + 1, !.fault = fault,
                             !.faulted = @ \/ fault]
         IN  IF c = "frame_url"
             THEN DcReturn(d, Detected("frame_url", f.addr.value, shot, Null))
             ELSE IF c = "frame_text"
             THEN DcReturn(d, Detected("frame_text", f.addr.value, shot,
                                       Normalize(f.body.value)))
             ELSE IF c = "abort" \/ dc.k = Len(dc.frames)
             THEN dc' = [d EXCEPT !.pc = "selector", !.k = 1]
             ELSE dc' = d
    /\ UNCHANGED <<ctlVars, fm, th, tr, ss, ut>>

SelectorCheck_Unguarded(sel, el, text) ==
    IF Threw(el) \/ Threw(text) THEN "escape"
    ELSE IF ~el.value THEN "next"
    ELSE IF IsIframeSelector(sel) THEN "selector"
    ELSE IF HasPhrase(Normalize(text.value)) THEN "selector_text"
    ELSE "next"

SelectorCheck_AnyElement(sel, el, text) ==
    IF Threw(el) THEN "next"
    ELSE IF ~el.value THEN "next"
    ELSE IF IsIframeSelector(sel) THEN "selector"
    ELSE "selector_text"

\* the body of the loop over SELECTOR_CANDIDATES, inside its try: el is what
\* page.$(sel) gave, text what reading the element's text gave; a fault of
\* either is caught by the iteration's catch
SelectorCheck(sel, el, text) ==
    IF Threw(el) THEN "next"
    ELSE IF ~el.value THEN "next"
    ELSE IF IsIframeSelector(sel) THEN "selector"
    ELSE IF Threw(text) THEN "next"
    ELSE IF HasPhrase(Normalize(text.value)) THEN "selector_text"
    ELSE "next"

\* the reads of one iteration: the element, and its text if the iteration
\* gets to read it
SelectorReads ==
    {[el |-> Fault, text |-> NoRead], [el |-> Read(FALSE), text |-> NoRead]}
    \cup {[el |-> Read(TRUE), text |-> t] : t \in {Read(x) : x \in SampleTexts} \cup {Fault}}

\* one iteration of for (const sel of SELECTOR_CANDIDATES), the frames of
\* tier 2 out of scope; an iframe selector's element is not read for its text. A fault that the iteration's
\* catch did not hold would end the call in the outer catch.
DcSelector ==
    /\ dc.pc = "selector"
    /\ \E r \in SelectorReads, shot \in BOOLEAN :
         LET sel == SELECTOR_CANDIDATES[dc.k]
             text == IF IsIframeSelector(sel) /\ r.el = Read(TRUE) THEN NoRead ELSE r.text
             c == SelectorCheck(sel, r.el, text)
             fault == Threw(r.el) \/ Threw(text)
             d == [dc EXCEPT !.tier = "selector", !.at = dc.k, !.k = dc.k + 1,
                             !.frames = <<>>, !.el = r.el, !.text = text, !.fault = fault,
                             !.faulted = @ \/ fault]
         IN  /\ IsIframeSelector(sel) => r.text \in {NoRead, Read(<<>>)}
             /\ IF c = "selector"
                THEN DcReturn(d, Detected("selector", sel, shot, Null))
                ELSE IF c = "selector_text"
                THEN DcReturn(d, Detected("selector_text", sel, shot,
                                          Normalize(text.value)))
                ELSE IF c = "escape"
                THEN DcReturn(d, NotDetected)
                ELSE IF dc.k = Len(SELECTOR_CANDIDATES)
                THEN dc' = [d EXCEPT !.pc = "body", !.k = 0]
                ELSE dc' = d
    /\ UNCHANGED <<ctlVars, fm, th, tr, ss, ut>>

\* tier 4: bodyText, "" if reading it throws; the first included pattern
DcBody ==
    /\ dc.pc = "body"
    /\ \E read \in {Read(t) : t \in Texts} \cup {Fault}, shot \in BOOLEAN :
         LET bodyText == IF Threw(read) THEN <<>> ELSE read.value
             normalizedBody == Normalize(bodyText)
             p == FirstPattern(normalizedBody)
             d == [dc EXCEPT !.tier = "body", !.text = read, !.el = NoRead,
                             !.fault = Threw(read), !.faulted = @ \/ Threw(read)]
         IN  IF p # <<>>
             THEN DcReturn(d, Detected("text", p, shot, normalizedBody))
             ELSE DcReturn(d, NotDetected)
    /\ UNCHANGED <<ctlVars, fm, th, tr, ss, ut>>

NextCaptcha ==
    \/ DcCall
    \/ DcUrl
    \/ DcFrames
    \/ DcFrame
    \/ DcSelector
    \/ DcBody

SpecCaptcha == Init /\ [][NextCaptcha]_vars

\* ================================================================ findMessageInputHandle

\* most elements of a page that a strategy or the fallback scan can match
MaxElems == 2

\* times are in units of 1000 ms
\* findMessageInputHandle(page, overallTimeout = 5000)
DefaultTimeout == 5
\* sendMessage calls findMessageInputHandle(this.page, 10000)
CallerTimeout == 10
\* timeout: Math.min(2000, remaining)
StrategyTimeout == 2
\* a budget that outlasts all ten strategies (10 * 2000 ms)
LongTimeout == 25
Budgets == {0, 3, DefaultTimeout, CallerTimeout, LongTimeout}

Max(a, b) == IF a >= b THEN a ELSE b

\* the selector strategies in list order; the sixth is the Persian aria-label,
\* written here in Latin letters
selectors ==
    <<"div[contenteditable='true'][role='textbox']",
      "div[role='textbox'][contenteditable='true']",
      "div[data-lexical-editor='true'][contenteditable='true']",
      "div[aria-label='Message']",
      "div[aria-label='Write a message']",
      "div[aria-label='payam']",
      "div[contenteditable='plaintext-only']",
      "div[contenteditable='true']",
      "textarea",
      "input[type='text']">>

\* the kinds of element on a page, by the attributes the selectors and the
\* fallback scan read
ElementKinds ==
    {[tag |-> "div", ce |-> "true", role |-> "textbox", lexical |-> FALSE, aria |-> ""],
     [tag |-> "div", ce |-> "true", role |-> "", lexical |-> TRUE, aria |-> ""],
     [tag |-> "div", ce |-> "absent", role |-> "", lexical |-> FALSE, aria |-> "Message"],
     [tag |-> "div", ce |-> "plaintext-only", role |-> "", lexical |-> FALSE, aria |-> ""],
     [tag |-> "textarea", ce |-> "absent", role |-> "", lexical |-> FALSE, aria |-> ""],
     [tag |-> "input", ce |-> "absent", role |-> "", lexical |-> FALSE, aria |-> ""],
     [tag |-> "span", ce |-> "true", role |-> "", lexical |-> FALSE, aria |-> ""],
     [tag |-> "span", ce |-> "true", role |-> "textbox", lexical |-> FALSE, aria |-> ""]}

\* a page: its elements in document order, each of a kind and displayed or not
Pages == UNION {[1..m -> [kind : ElementKinds, visible : BOOLEAN]] : m \in 0..MaxElems}

\* element e matches the k-th selector
Matches(k, e) ==
    LET a == e.kind IN
    IF k \in {1, 2} THEN a.tag = "div" /\ a.ce = "true" /\ a.role = "textbox"
    ELSE IF k = 3 THEN a.tag = "div" /\ a.lexical /\ a.ce = "true"
    ELSE IF k = 4 THEN a.tag = "div" /\ a.aria = "Message"
    ELSE IF k = 5 THEN a.tag = "div" /\ a.aria = "Write a message"
    ELSE IF k = 6 THEN a.tag = "div" /\ a.aria = "payam"
    ELSE IF k = 7 THEN a.tag = "div" /\ a.ce = "plaintext-only"
    ELSE IF k = 8 THEN a.tag = "div" /\ a.ce = "true"
    ELSE IF k = 9 THEN a.tag = "textarea"
    ELSE a.tag = "input"

\* the least member of a non-empty set of numbers
Least(S) == CHOOSE i \in S : \A j \in S : i <= j

\* page.waitForSelector(sel, { visible: true }) on a page that does not change:
\* the index of the first element in document order that matches, if it is
\* displayed; 0 (the wait times out) otherwise
WaitForSelector(p, k) ==
    LET hits == {i \in DOMAIN p : Matches(k, p[i])}
    IN  IF hits # {} /\ p[Least(hits)].visible THEN Least(hits) ELSE 0

\* the filter of the fallback scan over
\* querySelectorAll('[contenteditable], textarea, input[type="text"]')
IsCandidate(e) ==
    /\ e.kind.ce # "absent" \/ e.kind.tag \in {"textarea", "input"}
    /\ e.visible
    /\ \/ e.kind.role = "textbox"
       \/ e.kind.lexical
       \/ e.kind.aria \in {"Message", "Write a message", "payam"}
       \/ e.kind.ce # "absent"

\* the candidate of the highest score (role textbox above label keyword above
\* the rest), the earliest of them in document order
FirstCandidate_Ranked(p) ==
    LET c == {i \in DOMAIN p : IsCandidate(p[i])}
        score(e) == IF e.kind.role = "textbox" THEN 3
                    ELSE IF e.kind.aria \in {"Message", "Write a message", "payam"} THEN 2
                    ELSE 1
    IN  IF c = {} THEN 0
        ELSE Least({i \in c : \A j \in c : score(p[j]) <= score(p[i])})
\* candidates.length ? candidates[0] : false, as an index; 0 for none
FirstCandidate(p) ==
    LET c == {i \in DOMAIN p : IsCandidate(p[i])}
    IN  IF c = {} THEN 0 ELSE Least(c)

\* the handle of the i-th element of the page, and null
Handle(i) == [element |-> i]
NullHandle == [element |-> 0]

\* findMessageInputHandle(page, overallTimeout): const start = Date.now();
\* a behaviour follows one call, on any page and with any budget
FmCall ==
    /\ fm.pc = "idle"
    /\ \E t \in Budgets, p \in Pages :
         fm' = [pc |-> "loop", overallTimeout |-> t, page |-> p, elapsed |-> 0, k |-> 1,
                faulted |-> FALSE, scans |-> 0, granted |-> 0, result |-> NoResult]
    /\ UNCHANGED <<ctlVars, dc, th, tr, ss, ut>>

\* Math.max(0, overallTimeout - (Date.now() - start))
Remaining == Max(0, fm.overallTimeout - fm.elapsed)

\* a wait of the full strategy timeout whatever remains
Granted_Full(remaining) == StrategyTimeout
\* timeout: Math.min(2000, remaining)
Granted(remaining) == IF StrategyTimeout <= remaining THEN StrategyTimeout ELSE remaining

\* a catch that lets the fault of the wait leave the call
StrategyCatch_Rethrow(f, spent) == [f EXCEPT !.pc = "done", !.result = [thrown |-> TRUE]]
\* catch (e) { // ignore and continue }: the loop goes on to the next selector,
\* spent later
StrategyCatch(f, spent) == [f EXCEPT !.k = @ + 1, !.elapsed = @ + spent]

\* one iteration of for (const sel of selectors), or its end: the wait
\* returns a handle, or throws on its timeout after Math.min(2000, remaining),
\* or throws another fault at once; the catch takes both; granted sums the
\* timeouts passed to the waits
FmTry ==
    /\ fm.pc = "loop"
    /\ IF fm.k > Len(selectors) \/ Remaining = 0
       THEN fm' = [fm EXCEPT !.pc = "fallback"]
       ELSE LET f == [fm EXCEPT !.granted = @ + Granted(Remaining)] IN
            \/ IF WaitForSelector(fm.page, fm.k) # 0
               THEN fm' = [f EXCEPT !.pc = "done",
                                    !.result = Handle(WaitForSelector(fm.page, fm.k))]
               ELSE fm' = StrategyCatch(f, Granted(Remaining))
            \/ fm' = StrategyCatch([f EXCEPT !.faulted = TRUE], 0)
    /\ UNCHANGED <<ctlVars, dc, th, tr, ss, ut>>

\* the fallback: no budget left returns null; page.waitForFunction(scan), its
\* timeout the remaining budget,
\* resolves when the scan has a candidate and page.evaluateHandle(scan) gives
\* its handle, or times out at the end of the budget; a fault returns null
FmFallback ==
    /\ fm.pc = "fallback"
    /\ IF Remaining <= 0
       THEN fm' = [fm EXCEPT !.pc = "done", !.result = NullHandle]
       ELSE LET f == [fm EXCEPT !.granted = @ + Remaining] IN
            \/ IF FirstCandidate(fm.page) # 0
               THEN fm' = [f EXCEPT !.pc = "done", !.scans = @ + 1,
                                    !.result = Handle(FirstCandidate(fm.page))]
               ELSE fm' = [f EXCEPT !.pc = "done", !.scans = @ + 1,
                                    !.elapsed = fm.overallTimeout,
                                    !.result = NullHandle]
            \/ fm' = [f EXCEPT !.pc = "done", !.scans = @ + 1, !.faulted = TRUE,
                               !.result = NullHandle]
    /\ UNCHANGED <<ctlVars, dc, th, tr, ss, ut>>

NextLocator ==
    \/ FmCall
    \/ FmTry
    \/ FmFallback

SpecLocator == Init /\ [][NextLocator]_vars

\* ================================================================ throttle

\* a wait that is skipped
WaitFor_None(last, now) == 0
\* const waitFor = Math.max(0, this.minMessageIntervalMs - (now - this._lastActionAt))
WaitFor(last, now) == Max(0, MinMessageIntervalMs - (now - last))

\* this._lastActionAt = Date.now(): the last statement of throttle(); the
\* return is recorded: of the nth call to enter, which entered at time
\* `entered` after `seen` calls had returned, at time `at`
Stamp(t, call) ==
    [t EXCEPT !.lastActionAt = t.now,
              !.releases = Append(@, [nth |-> call.nth, seen |-> call.seen,
                                      entered |-> call.entered, at |-> t.now])]

\* throttle(): const now = Date.now(); the wait is computed from the
\* _lastActionAt read here; without a wait the call stamps and returns in the
\* same turn, with one it suspends in await wait(waitFor)
ThEnter(c) ==
    /\ th.calls[c].pc = "idle"
    /\ th.entered < MaxCalls
    /\ LET call == [pc |-> "waiting", nth |-> th.entered + 1, seen |-> Len(th.releases),
                    entered |-> th.now,
                    wakeAt |-> th.now + WaitFor(th.lastActionAt, th.now)]
           t == [th EXCEPT !.entered = @ + 1]
       IN  IF WaitFor(th.lastActionAt, th.now) > 0
           THEN th' = [t EXCEPT !.calls[c] = call]
           ELSE th' = Stamp(t, call)
    /\ UNCHANGED <<ctlVars, dc, fm, tr, ss, ut>>

\* the timer of wait(waitFor) fires, at its time or later, and the call
\* stamps and returns
ThWake(c) ==
    /\ th.calls[c].pc = "waiting"
    /\ th.now >= th.calls[c].wakeAt
    /\ th' = Stamp([th EXCEPT !.calls[c] = ThIdleCall], th.calls[c])
    /\ UNCHANGED <<ctlVars, dc, fm, tr, ss, ut>>

\* the clock advances
ThTick ==
    /\ th.now < MaxClock
    /\ th' = [th EXCEPT !.now = @ + 1]
    /\ UNCHANGED <<ctlVars, dc, fm, tr, ss, ut>>

\* an operation that assigns the current time to _lastActionAt
OtherOp_Stamps(t, o) == [t EXCEPT !.lastOp = o, !.lastActionAt = t.now]
\* initSession, persistSession, login and the statements of sendMessage and
\* sendFriendRequest after their call of throttle(): none of them assigns
\* _lastActionAt
OtherOp(t, o) == [t EXCEPT !.lastOp = o]

ThOther ==
    /\ \E o \in {"initSession", "persistSession", "login", "workflow_body"} :
         th' = OtherOp(th, o)
    /\ th'.lastOp # th.lastOp
    /\ UNCHANGED <<ctlVars, dc, fm, tr, ss, ut>>

NextThrottle ==
    \/ \E c \in Callers : ThEnter(c)
    \/ \E c \in Callers : ThWake(c)
    \/ ThTick
    \/ ThOther

SpecThrottle == Init /\ [][NextThrottle]_vars

\* ================================================================ transports

\* the token a caller presents: the configured one, another one, none
Tokens == {"secret", "wrong", Null}
\* the methods handleCommand knows
WsMethods == {"openMessages", "sendMessage", "searchAndAddFriend"}

\* values the controller's operations return to the route that called them
ControllerResults(e) ==
    IF e = "/login"
    THEN {OnSuccess(0).result, LoginCatch("fault"), OnTimeout(0, 0).result,
          OnInvalid(NotDetected, 0, 0).result}
    ELSE IF e = "/sendMessage"
    THEN {[success |-> TRUE]} \cup {SmFail("input_not_found", s) : s \in BOOLEAN}
                              \cup {SmCatch("fault", s) : s \in BOOLEAN}
    ELSE IF e = "/friendRequest"
    THEN {SfrAlreadyFriend, SfrNoButton} \cup {SfrSent(c) : c \in BOOLEAN}
                                         \cup {SfrCatch("fault", s) : s \in BOOLEAN}
    ELSE {}

\* try { const result = await fb.<operation>(...);
\*       if (!result.success) return res.status(400).json(result);
\*       return res.json(result);
\* } catch (err) { return res.status(500).json({ success: false, error: err.message }) }
Respond(r) ==
    IF Has(r, "thrown")
    THEN [status |-> 500, body |-> [success |-> FALSE, error |-> r.thrown]]
    ELSE IF ~(Has(r, "success") /\ r.success = TRUE)
    THEN [status |-> 400, body |-> r]
    ELSE [status |-> 200, body |-> r]

\* the answer of a route that did not run its command
Refuse(code, msg) ==
    [executed |-> FALSE, status |-> code, body |-> [success |-> FALSE, error |-> msg]]

\* app.post(e, ...) for the three routes into the controller, with fb set once
\* the controller is constructed and fbReady once initSession has returned
Route(e, boot, r) ==
    IF e = "/login" /\ boot \notin {"constructed", "ready"}
    THEN Refuse(503, "not_ready")
    ELSE IF e # "/login" /\ boot # "ready"
    THEN Refuse(400, "page_not_ready")
    ELSE [executed |-> TRUE, result |-> r] @@ Respond(r)

\* app.post("/uploadSession", ...): session is the body's field or missing,
\* fault a fault of mkdir or writeFile; loadSession does not throw
Upload(session, fault) ==
    IF ~session
    THEN Refuse(400, "no_session")
    ELSE IF fault
    THEN [executed |-> TRUE, status |-> 500,
          body |-> [success |-> FALSE, error |-> "fault"]]
    ELSE [executed |-> TRUE, status |-> 200, body |-> [success |-> TRUE, file |-> "filePath"]]

\* the startup of the HTTP server: launch, new FacebookController, then
\* await fb.initSession(); fbReady = true; a failed launch is only logged
TrStartup ==
    /\ \/ tr.boot = "launching" /\ \E b \in {"constructed", "failed"} : tr' = [tr EXCEPT !.boot = b]
       \/ tr.boot = "constructed" /\ tr' = [tr EXCEPT !.boot = "ready"]
    /\ UNCHANGED <<ctlVars, dc, fm, th, ss, ut>>

\* one request to the HTTP server; no route reads a token
TrHttp ==
    /\ \E e \in {"/login", "/sendMessage", "/friendRequest", "/uploadSession"},
          tok \in Tokens :
         \E ans \in IF e = "/uploadSession"
                    THEN {Upload(s, f) : s, f \in BOOLEAN}
                    ELSE {Route(e, tr.boot, r) : r \in ControllerResults(e)} :
             tr' = [tr EXCEPT !.last = [via |-> "http", command |-> e, token |-> tok] @@ ans]
    /\ UNCHANGED <<ctlVars, dc, fm, th, ss, ut>>

\* main() of the WebSocket server: const AUTH_TOKEN = process.env.AUTH_TOKEN,
\* which is set or undefined
TrWsStart ==
    /\ tr.authToken = "unset"
    /\ \E a \in {"secret", "undefined"} : tr' = [tr EXCEPT !.authToken = a]
    /\ UNCHANGED <<ctlVars, dc, fm, th, ss, ut>>

\* wss.on("connection"): if (url.searchParams.get("token") !== AUTH_TOKEN)
\* { ws.close(); return; }
TrWsConnect ==
    /\ tr.authToken # "unset"
    /\ tr.conn.state # "open"
    /\ \E tok \in Tokens :
         tr' = [tr EXCEPT !.conn = [state |-> IF tok # tr.authToken THEN "closed" ELSE "open",
                                    token |-> tok]]
    /\ UNCHANGED <<ctlVars, dc, fm, th, ss, ut>>

\* ws.on("message"), registered on a connection that passed the check: the
\* frame does not parse, or names a method handleCommand does not know, or
\* the handler runs and returns or throws
TrWsMessage ==
    /\ tr.conn.state = "open"
    /\ \E m \in WsMethods \cup {"unknown", "unparsable"}, thrown \in BOOLEAN :
         tr' = [tr EXCEPT !.last =
                    [via |-> "ws", command |-> m, token |-> tr.conn.token,
                     executed |-> m \in WsMethods,
                     body |-> IF m \notin WsMethods \/ thrown
                              THEN [id |-> "id", error |-> "message"]
                              ELSE [id |-> "id", result |-> [ok |-> TRUE, msg |-> "msg"]]]]
    /\ UNCHANGED <<ctlVars, dc, fm, th, ss, ut>>

NextTransport ==
    \/ TrStartup
    \/ TrHttp
    \/ TrWsStart
    \/ TrWsConnect
    \/ TrWsMessage

SpecTransport == Init /\ [][NextTransport]_vars

\* ---------------------------------------------------------------- requests in flight

\* a request of client c reaches its route: Express calls the handler at once,
\* whatever other handlers are suspended at an await; the handler refuses as
\* Route does, or calls the controller operation (for /uploadSession:
\* loadSession on the page, if there is one), which then drives the page
SvBegin(c) ==
    /\ tr.inflight[c].pc # "driving"
    /\ \E e \in {"/login", "/sendMessage", "/friendRequest", "/uploadSession"} :
         LET runs == IF e = "/uploadSession"
                     THEN tr.boot \in {"constructed", "ready"}
                     ELSE Route(e, tr.boot, [success |-> TRUE]).executed
         IN  tr' = [tr EXCEPT !.inflight[c] =
                       [pc |-> IF runs THEN "driving" ELSE "answered", command |-> e,
                        steps |-> 0]]
    /\ UNCHANGED <<ctlVars, dc, fm, th, ss, ut>>

\* the operation of c's request resumes after an await and performs its next
\* page step (goto, query, click, key, evaluate)
SvStep(c) ==
    /\ tr.inflight[c].pc = "driving"
    /\ tr.inflight[c].steps < MaxPageSteps
    /\ tr' = [tr EXCEPT !.inflight[c].steps = @ + 1]
    /\ UNCHANGED <<ctlVars, dc, fm, th, ss, ut>>

\* the operation returns or throws and the handler sends the response
SvEnd(c) ==
    /\ tr.inflight[c].pc = "driving"
    /\ tr' = [tr EXCEPT !.inflight[c].pc = "answered"]
    /\ UNCHANGED <<ctlVars, dc, fm, th, ss, ut>>

NextServer ==
    \/ TrStartup
    \/ \E c \in Callers : SvBegin(c)
    \/ \E c \in Callers : SvStep(c)
    \/ \E c \in Callers : SvEnd(c)

SpecServer == Init /\ [][NextServer]_vars

\* ================================================================ session store

\* most cookies a browser context holds
MaxCookies == 2

\* the values of cookies and of localStorage keys
SsValues == {"a", "b"}

\* what context.cookies() returns: cookies of distinct names
Jars ==
    {j \in UNION {[1..n -> [name : {"c_user", "xs"}, value : SsValues]] : n \in 0..MaxCookies} :
        \A x, y \in DOMAIN j : j[x].name = j[y].name => x = y}
\* the localStorage of the page's origin
Storages == UNION {[K -> SsValues] : K \in SUBSET {"k"}}

\* JSON null, and the text of a file that is not JSON
JsonNull == [null |-> TRUE]
Garbage == <<"{", "cookies">>

\* the values session files hold: what saveSession writes, and the other
\* JSON values an upload or an editor leaves there
JsonValues ==
    [cookies : Jars, localStorage : Storages, savedAt : {"t"}] \cup {<<>>, JsonNull}

\* JSON.stringify(v, null, 2), as the tokens of the text
RECURSIVE CookieTokens(_)
CookieTokens(j) ==
    IF j = <<>> THEN <<>>
    ELSE <<"{", "name", Head(j).name, "value", Head(j).value, "}">> \o CookieTokens(Tail(j))

Stringify(v) ==
    IF v = JsonNull THEN <<"null">>
    ELSE IF v = <<>> THEN <<"{", "}">>
    ELSE <<"{", "cookies", "[">> \o CookieTokens(v.cookies)
         \o <<"]", "localStorage", "{">>
         \o (IF "k" \in DOMAIN v.localStorage THEN <<"k", v.localStorage["k"]>> ELSE <<>>)
         \o <<"}", "savedAt", v.savedAt, "}">>

\* JSON.parse(raw): the value whose text raw is; a SyntaxError for any other text
Parse(raw) ==
    IF \E v \in JsonValues : Stringify(v) = raw
    THEN [value |-> CHOOSE v \in JsonValues : Stringify(v) = raw]
    ELSE [thrown |-> "SyntaxError"]

\* context.addCookies(cs): each cookie replaces the cookie of its name or is added
RECURSIVE AddCookies(_, _)
AddCookies(jar, cs) ==
    IF cs = <<>> THEN jar
    ELSE LET c == Head(cs)
             at == {i \in DOMAIN jar : jar[i].name = c.name}
         IN  AddCookies(IF at = {} THEN Append(jar, c)
                        ELSE [i \in DOMAIN jar |-> IF i \in at THEN c ELSE jar[i]],
                        Tail(cs))

\* for (const k of Object.keys(data || {})) localStorage.setItem(k, data[k])
SetItems(storage, data) ==
    [k \in DOMAIN storage \cup DOMAIN data |->
        IF k \in DOMAIN data THEN data[k] ELSE storage[k]]

\* a catch that lets the fault leave loadSession
LoadCatch_Rethrow(msg) == [thrown |-> msg]
\* catch (err) { return { ok: false, error: err.message } }
LoadCatch(msg) == [ok |-> FALSE, error |-> msg]

\* loadSession(page, name) on file f and page p; cookieFault: addCookies
\* rejects (swallowed by .catch); storageFault: the evaluate rejects (swallowed
\* by the inner catch)
LoadSession(f, p, cookieFault, storageFault) ==
    IF f.state = "missing" THEN [page |-> p, result |-> LoadCatch("ENOENT")]
    ELSE IF f.state = "unreadable" THEN [page |-> p, result |-> LoadCatch("EACCES")]
    ELSE IF Has(Parse(f.text), "thrown")
    THEN [page |-> p, result |-> LoadCatch(Parse(f.text).thrown)]
    ELSE LET parsed == Parse(f.text).value IN
         IF parsed = JsonNull THEN [page |-> p, result |-> LoadCatch("TypeError")]
         ELSE [page |->
                  [cookies |-> IF Has(parsed, "cookies") /\ Len(parsed.cookies) > 0
                                  /\ ~cookieFault
                               THEN AddCookies(p.cookies, parsed.cookies)
                               ELSE p.cookies,
                   storage |-> IF Has(parsed, "localStorage") /\ ~storageFault
                               THEN SetItems(p.storage, parsed.localStorage)
                               ELSE p.storage],
               result |-> [ok |-> TRUE, file |-> "file"]]

\* nothing captured by a save is in the file
NotSaved == [none |-> TRUE]

\* saveSession(page, name): the cookies and the localStorage of the page are
\* written to the file; a fault of a read or of the write leaves the call
\* (persistSession catches it), and a failed write may leave a broken file
SsSave ==
    /\ LET out == [cookies |-> ss.page.cookies, localStorage |-> ss.page.storage,
                   savedAt |-> "t"]
       IN  \/ ss' = [ss EXCEPT !.op = "save", !.result = [file |-> "file"],
                               !.file = [state |-> "present", text |-> Stringify(out)],
                               !.saved = [cookies |-> out.cookies,
                                          localStorage |-> out.localStorage],
                               !.before = NotSaved]
           \/ \E f \in {ss.file, [state |-> "present", text |-> Garbage]} :
                ss' = [ss EXCEPT !.op = "save", !.result = [thrown |-> "fault"],
                                 !.file = f,
                                 !.saved = IF f = ss.file THEN @ ELSE NotSaved,
                                 !.before = NotSaved]
    /\ UNCHANGED <<ctlVars, dc, fm, th, tr, ut>>

\* loadSession(page, name) under the same name
SsLoad ==
    /\ \E cf, sf \in BOOLEAN :
         LET r == LoadSession(ss.file, ss.page, cf, sf)
         IN  ss' = [ss EXCEPT !.op = "load", !.result = r.result, !.page = r.page,
                              !.before = ss.page]
    /\ UNCHANGED <<ctlVars, dc, fm, th, tr, ut>>

\* the file is removed, made unreadable, or replaced by another text (an
\* upload, an editor, a broken write)
SsFile ==
    /\ \E f \in {[state |-> "missing"], [state |-> "unreadable"]}
                 \cup {[state |-> "present", text |-> t] :
                          t \in {Garbage, Stringify(JsonNull), Stringify(<<>>)}} :
         ss' = [ss EXCEPT !.op = "file", !.result = NoResult, !.file = f,
                          !.saved = NotSaved, !.before = NotSaved]
    /\ UNCHANGED <<ctlVars, dc, fm, th, tr, ut>>

\* the page is used: the site sets or removes cookies and storage keys
SsBrowse ==
    /\ \E j \in Jars, s \in Storages :
         ss' = [ss EXCEPT !.op = "browse", !.result = NoResult,
                          !.page = [cookies |-> j, storage |-> s],
                          !.before = NotSaved]
    /\ ss'.page # ss.page
    /\ UNCHANGED <<ctlVars, dc, fm, th, tr, ut>>

NextSession ==
    \/ SsSave
    \/ SsLoad
    \/ SsFile
    \/ SsBrowse

SpecSession == Init /\ [][NextSession]_vars

\* ================================================================ login: backoff

\* largest maxRetries of a login call whose delays are followed
MaxBackoffRetries == 4

\* Math.min(15000, 1000 * Math.pow(2, attempt)) + Math.floor(Math.random() * 1000),
\* in ms; random in 0..JitterMs-1 is the value of the floor
BackoffCapMs == 15000
BackoffBaseMs == 1000
JitterMs == 1000

\* a backoff without the cap
Backoff_Uncapped(att, random) == BackoffBaseMs * 2^att + random
Backoff(att, random) ==
    (IF BackoffCapMs <= BackoffBaseMs * 2^att THEN BackoffCapMs ELSE BackoffBaseMs * 2^att)
        + random

\* values of Math.floor(Math.random() * 1000): the ends of the range and
\* values inside it
Jitters == {0, 1, 500, JitterMs - 1}

\* login(email, password, maxRetries): let attempt = 0, and the first attempt
BoCall ==
    /\ ut.fn = "none"
    /\ \E mr \in 0..MaxBackoffRetries :
         ut' = [fn |-> "login", maxRetries |-> mr, attempt |-> 0, captchas |-> 0,
                backoff |-> 0, log |-> <<"attempt">>]
    /\ UNCHANGED <<ctlVars, dc, fm, th, tr, ss>>

\* an attempt of the call ends in a captcha or in a timeout outcome and the
\* loop body runs: after a captcha with retries left, attempt++ and then the
\* backoff computed from the new attempt, then the clearing; the next
\* iteration starts the next attempt
BoOutcome ==
    /\ ut.fn = "login"
    /\ \E kind \in {"captcha", "timeout"}, shot \in BOOLEAN, random \in Jitters :
         LET d == IF kind = "captcha"
                  THEN OnCaptcha([outcome |-> "captcha"], ut.attempt, ut.maxRetries, shot)
                  ELSE OnTimeout(ut.attempt, ut.maxRetries)
             slept == \E i \in DOMAIN d.events : d.events[i] = "backoff"
         IN  ut' = [ut EXCEPT !.fn = IF d.ret THEN "done" ELSE "login",
                              !.attempt = d.attempt,
                              !.captchas = IF kind = "captcha" THEN @ + 1 ELSE @,
                              !.backoff = IF slept THEN Backoff(d.attempt, random) ELSE 0,
                              !.log = @ \o d.events
                                        \o (IF d.ret THEN <<>> ELSE <<"attempt">>)]
    /\ UNCHANGED <<ctlVars, dc, fm, th, tr, ss>>

NextBackoff ==
    \/ BoCall
    \/ BoOutcome

SpecBackoff == Init /\ [][NextBackoff]_vars

\* ================================================================ humanType

\* most characters of a typed text
MaxTyped == 2

\* const { minDelay = 70, maxDelay = 140 } = opts
DefaultMinDelay == 70
DefaultMaxDelay == 140
\* helpers.js: 70 + Math.random() * 130
HelpersSpread == 130

\* the delay after a character, in ms, for Math.random() = random / 1000:
\* human.js: minDelay + Math.floor(Math.random() * (maxDelay - minDelay));
\* helpers.js: 70 + Math.random() * 130, which setTimeout truncates
HtDelay(impl, minDelay, maxDelay, random) ==
    IF impl = "human.js"
    THEN minDelay + (random * (maxDelay - minDelay)) \div 1000
    ELSE DefaultMinDelay + (random * HelpersSpread) \div 1000

\* humanType(page, handleOrSelector, text, opts) of utils/human.js or of
\* utils/helpers.js (which takes no opts): the target is a handle, or a
\* selector that page.$ resolves or not
HtCall ==
    /\ ut.fn = "none"
    /\ \E impl \in {"human.js", "helpers.js"}, target \in {"handle", "selector", "no_match"},
          text \in UNION {[1..n -> {"a", "b"}] : n \in 0..MaxTyped},
          opts \in {[minDelay |-> DefaultMinDelay, maxDelay |-> DefaultMaxDelay],
                    [minDelay |-> 10, maxDelay |-> 20]} :
         /\ impl = "helpers.js" => opts.minDelay = DefaultMinDelay
         /\ ut' = [fn |-> "humanType", pc |-> "resolved", impl |-> impl, target |-> target,
                   text |-> text, minDelay |-> opts.minDelay, maxDelay |-> opts.maxDelay,
                   log |-> IF target = "handle" THEN <<>> ELSE <<"query">>,
                   delays |-> <<>>]
    /\ UNCHANGED <<ctlVars, dc, fm, th, tr, ss>>

\* if (!handle) throw ...; await handle.focus(): without a handle human.js
\* throws its own error and helpers.js a TypeError
HtFocus ==
    /\ ut.fn = "humanType"
    /\ ut.pc = "resolved"
    /\ IF ut.target = "no_match"
       THEN ut' = [ut EXCEPT !.pc = "thrown"]
       ELSE ut' = [ut EXCEPT !.pc = "typing", !.log = Append(@, "focus")]
    /\ UNCHANGED <<ctlVars, dc, fm, th, tr, ss>>

\* one iteration of for (const ch of text): page.keyboard.type(ch), then the
\* delay; after the last character the call returns
HtKey ==
    /\ ut.fn = "humanType"
    /\ ut.pc = "typing"
    /\ LET n == Len(ut.delays) IN
       IF n = Len(ut.text)
       THEN ut' = [ut EXCEPT !.pc = "returned"]
       ELSE \E random \in {0, 500, 999} :
              ut' = [ut EXCEPT !.log = Append(@, ut.text[n + 1]),
                               !.delays = Append(@, HtDelay(ut.impl, ut.minDelay,
                                                            ut.maxDelay, random))]
    /\ UNCHANGED <<ctlVars, dc, fm, th, tr, ss>>

NextHuman ==
    \/ HtCall
    \/ HtFocus
    \/ HtKey

SpecHuman == Init /\ [][NextHuman]_vars

\* ================================================================ properties

Count(seq, e) == Cardinality({i \in DOMAIN seq : seq[i] = e})

IsSuccess(r) ==
    \/ Has(r, "success") /\ r.success = TRUE
    \/ Has(r, "status") /\ r.status = "success"

IsFailure(r) ==
    \/ Has(r, "success") /\ r.success = FALSE
    \/ Has(r, "status") /\ r.status = "failed"

\* the events that touch a credential field
CredentialEvents == {"wait_email", "wait_pass", "type_email", "type_pass", "click_login"}

\* every attempt of the running login call so far ended in outcome kind
AllEnded(kind) ==
    \A i \in DOMAIN ends : Has(ends[i], "outcome") /\ ends[i].outcome = kind

\* C1 (as claimed): a login call whose first navigation shows the visible
\* authenticated marker returns success = true with alreadyLoggedIn = true and
\* has touched no credential field.
C1_AlreadyLoggedIn ==
    (pc = "done" /\ op = "login" /\ Count(log, "attempt") = 1
        /\ Has(page0, "marker") /\ page0.marker = "visible")
    => /\ IsSuccess(result)
       /\ Has(result, "alreadyLoggedIn") /\ result.alreadyLoggedIn = TRUE
       /\ \A i \in DOMAIN log : log[i] \notin CredentialEvents

\* the attempts of the running login call that ended in a captcha outcome
CaptchaEnds == {i \in DOMAIN ends : IsCaptchaOutcome(ends[i])}

\* C2: a login call makes one backoff per captcha outcome that had retries
\* left, each backoff is followed (after the clearing) by one further attempt
\* that starts with the navigation, and there are never more attempts than
\* permitted; when all permitted attempts ended in captcha the call returns
\* captcha_detected with the last attempt's captcha result as detail.
C2_CaptchaRetry ==
    (op = "login") =>
      /\ Len(ends) <= maxRetries + 1
      /\ Count(log, "attempt") <= maxRetries + 1
      /\ Count(log, "backoff") =
            IF pc = "done" /\ Has(result, "error") /\ result.error = "captcha_detected"
            THEN Cardinality(CaptchaEnds) - 1 ELSE Cardinality(CaptchaEnds)
      /\ \A i \in DOMAIN log :
           log[i] = "backoff" =>
             /\ IF i + 3 <= Len(log) THEN log[i + 3] = "attempt"
                ELSE pc = "login_loop" /\ i + 2 = Len(log)
             /\ i + 4 <= Len(log) => log[i + 4] = "goto_login"
             /\ Count(SubSeq(log, i + 1, Len(log)), "attempt") >= 1 \/ pc = "login_loop"
      /\ (pc = "done" /\ Len(ends) = maxRetries + 1 /\ AllEnded("captcha")) =>
           /\ result.success = FALSE
           /\ result.error = "captcha_detected"
           /\ result.detail = ends[Len(ends)].captcha

C2_Witness ==
    /\ pc = "done" /\ op = "login" /\ maxRetries = 2 /\ Len(ends) = 3
    /\ AllEnded("captcha")
    /\ ends[1].captcha # ends[3].captcha
    /\ Count(log, "backoff") = 2
    /\ result.error = "captcha_detected"

\* C3 (as claimed): when every permitted attempt times out, login returns the
\* error max_retries_exceeded.
C3_TimeoutMaxRetries ==
    (pc = "done" /\ op = "login" /\ Len(ends) >= maxRetries + 1 /\ AllEnded("timeout"))
    => result.success = FALSE /\ result.error = "max_retries_exceeded"

\* C3 (amended): when every permitted attempt times out, login returns the
\* terminal failure { success: false, error: "timeout" }.
C3_TimeoutExhausted ==
    (pc = "done" /\ op = "login" /\ Len(ends) >= maxRetries + 1 /\ AllEnded("timeout"))
    => result = [success |-> FALSE, error |-> "timeout"]

C3_Witness ==
    /\ pc = "done" /\ op = "login" /\ maxRetries = 2 /\ Len(ends) = 3
    /\ AllEnded("timeout")
    /\ Count(log, "delay") = 2
    /\ result.error = "timeout"

\* C4: an attempt that ends in invalid_credentials is the last one: the call
\* has returned failure invalid_credentials and started no further attempt.
C4_InvalidTerminal ==
    (op = "login") =>
      \A i \in DOMAIN ends :
        (Has(ends[i], "outcome") /\ ends[i].outcome = "invalid_credentials") =>
          /\ i = Len(ends)
          /\ pc = "done"
          /\ result.success = FALSE
          /\ result.error = "invalid_credentials"
          /\ Count(log, "attempt") = i

C4_Witness ==
    /\ pc = "done" /\ op = "login" /\ maxRetries = 2 /\ Len(ends) = 2
    /\ Has(ends[2], "outcome") /\ ends[2].outcome = "invalid_credentials"
    /\ attempt < maxRetries
    /\ result.error = "invalid_credentials"

\* C5: a login call that returned success invoked session persistence as its
\* last effect; a login call that is running or returned a failure has not
\* invoked it.
C5_PersistOnSuccess ==
    (op = "login") =>
      IF pc = "done" /\ IsSuccess(result)
      THEN Count(log, "persist") = 1 /\ log[Len(log)] = "persist"
      ELSE Count(log, "persist") = 0

C5_Witness ==
    /\ pc = "done" /\ op = "login" /\ IsSuccess(result)
    /\ attempt >= 1
    /\ Count(log, "persist") = 1

\* C6 (as claimed): every result of login, sendMessage and sendFriendRequest
\* has a boolean success field, and success = true comes with no error.
C6_Envelope ==
    (pc = "done" /\ op \in {"login", "sendMessage", "sendFriendRequest"})
    => /\ Has(result, "success")
       /\ result.success \in BOOLEAN
       /\ result.success => (~Has(result, "error") \/ result.error = Null)

\* no page operation threw in the running call (the ReferenceError is raised
\* by the code itself, not by the page)
NoPageFault == err \in {Null, "addFriendButtons is not defined"}

\* C7 (as claimed): sendFriendRequest on a page that shows the add-friend
\* control and an already-connected indicator before any click (and goes on
\* showing it) returns success without clicking the control.
C7_ConnectedNoClick ==
    (pc = "done" /\ op = "sendFriendRequest" /\ NoPageFault
        /\ Has(page0, "friends") /\ page0.addBtn /\ page0.friends /\ page.friends)
    => IsSuccess(result) /\ Count(log, "click_add") = 0

\* C8 (as claimed): sendFriendRequest with the control present and no
\* already-connected indicator found clicks, re-scans for the request-sent
\* indicator, persists the session and returns success.
C8_ClickConfirmPersist ==
    (pc = "done" /\ op = "sendFriendRequest" /\ NoPageFault
        /\ Has(page, "friends") /\ page.addBtn /\ ~page.friends)
    => /\ IsSuccess(result)
       /\ Count(log, "click_add") >= 1
       /\ Count(log, "scan_sent") = 1
       /\ Count(log, "persist") = 1

\* C9: a friend-request call that finds no add-friend control returns a
\* failure with error no_add_friend_button, clicks nothing and does not
\* persist the session.
C9_NoAddButton ==
    (op \in {"sendFriendRequest", "friendRequest"}
        /\ Has(page0, "addBtn") /\ ~page0.addBtn)
    => /\ pc = "done"
       /\ IsFailure(result) /\ ~IsSuccess(result)
       /\ result.error = "no_add_friend_button"
       /\ Count(log, "click_add") = 0
       /\ Count(log, "persist") = 0

C9_Witness ==
    /\ pc = "done" /\ op = "sendFriendRequest"
    /\ Has(page0, "addBtn") /\ ~page0.addBtn
    /\ result.error = "no_add_friend_button"

\* C10: once sendMessage has seen a login-form field right after navigating to
\* the messaging surface, it has returned failure not_logged_in and its only
\* effect after the detection is the diagnostic screenshot.
C10_NotLoggedIn ==
    (op = "sendMessage" /\ Has(page0, "loginFields") /\ page0.loginFields)
    => /\ pc = "done"
       /\ result.success = FALSE
       /\ result.error = "not_logged_in"
       /\ log = <<"throttle", "goto_messages", "query_login_fields", "screenshot">>

C10_Witness ==
    /\ pc = "done" /\ op = "sendMessage"
    /\ Has(page0, "loginFields") /\ page0.loginFields
    /\ result.error = "not_logged_in"

\* the public workflows of the controller that are failure boundaries
Boundaries == {"login", "sendMessage", "sendFriendRequest"}

\* C11 (as claimed): whatever page operation of login, sendMessage or
\* sendFriendRequest raised a fault, swallowed by a local catch or not, the
\* call has returned a structured failure carrying a message.
C11_AnyFaultFails ==
    (pc = "done" /\ op \in Boundaries /\ (swallowed \/ err # Null))
        => (IsFailure(result) /\ Has(result, "error"))

\* C11 (amended): the three workflows return a structured result in every
\* case and never propagate; a fault that reaches the workflow's outer catch
\* makes the call return a structured failure carrying that fault's message,
\* also when the diagnostic capture failed (screenshot = null).
C11_FailureBoundary ==
    (pc = "done" /\ op \in Boundaries)
        => /\ ~Has(result, "thrown")
           /\ IsSuccess(result) \/ IsFailure(result)
           /\ err # Null => (IsFailure(result) /\ result.error = err)

C11_Witness ==
    /\ pc = "done"
    /\ op = "sendMessage"
    /\ err = "type_failed"
    /\ IsFailure(result)
    /\ result.error = "type_failed"
    /\ result.screenshot = Null

\* C12: in a sendMessage call past the login check, the failure is that of
\* the first failing step: the message-input locator runs only if the input
\* was present or the global-search fallback clicked a control, and a fallback
\* that clicked nothing ends the call in no_clickable_row; the message is typed
\* only if the locator returned a handle, and a locator that returned none ends
\* the call in no_message_input.
C12_FirstFailingStep ==
    op = "sendMessage" =>
        /\ Count(log, "locate_input") > 0
              => (page.input \/ Count(log, "click_message_btn") > 0)
        /\ Count(log, "type_message") > 0 => (Has(page, "handle") /\ page.handle)
        /\ (pc = "done" /\ err = Null /\ Count(log, "query_cards") > 0
              /\ Count(log, "click_message_btn") = 0)
              => (result.success = FALSE /\ result.error = "no_clickable_row"
                  /\ Count(log, "locate_input") = 0)
        /\ (pc = "done" /\ Has(page, "handle") /\ ~page.handle)
              => (result.success = FALSE /\ result.error = "no_message_input"
                  /\ Count(log, "type_message") = 0)

C12_Witness ==
    /\ pc = "done"
    /\ op = "sendMessage"
    /\ Count(log, "click_message_btn") = 1
    /\ Has(page, "handle") /\ ~page.handle
    /\ result.error = "no_message_input"
    /\ Count(log, "type_message") = 0

\* the steps of sendMessage that are not part of the recipient search
SmOnceEvents ==
    {"throttle", "goto_messages", "query_login_fields", "wait_main", "query_search",
     "type_recipient", "query_rows", "click_row", "query_input", "goto_global_search",
     "query_cards", "click_message_btn", "locate_input", "type_message", "persist",
     "screenshot"}

\* the positions of event e in the log
Positions(e) == {i \in DOMAIN log : log[i] = e}

\* C13: sendMessage makes one attempt: no step runs twice, the message is
\* typed at most once, an Enter press that submits it comes only directly
\* after the typing, the session is persisted only directly after that press,
\* and the call returns success = true exactly when its effects end in typing,
\* one Enter press and the persist.
C13_SingleAttempt ==
    op = "sendMessage" =>
        /\ \A e \in SmOnceEvents : Count(log, e) <= 1
        /\ \A i \in Positions("type_message") :
              Cardinality({j \in Positions("press_Enter") : j > i}) <= 1
        /\ \A j \in Positions("press_Enter") :
              (\E i \in Positions("type_message") : i < j) => log[j - 1] = "type_message"
        /\ \A k \in Positions("persist") :
              k = Len(log) /\ k > 2 /\ log[k - 1] = "press_Enter" /\ log[k - 2] = "type_message"
        /\ (pc = "done" /\ IsSuccess(result)) => Count(log, "persist") = 1
        /\ (pc = "done" /\ Count(log, "persist") = 1) => result = [success |-> TRUE]

C13_Witness ==
    /\ pc = "done"
    /\ op = "sendMessage"
    /\ result = [success |-> TRUE]
    /\ Count(log, "type_message") = 1
    /\ Count(log, "persist") = 1
    /\ Count(log, "press_Enter") = 2

\* ---------------------------------------------------------------- detectCaptcha

\* C14: once the address read matches the checkpoint/security pattern, the
\* call has returned detected = true with method url and that address as the
\* match, and has read no frame, no selector and no text of the page.
C14_UrlShortCircuit ==
    (dc.pc \notin {"idle", "url"} /\ Has(dc.url, "value") /\ UrlPattern(dc.url.value))
        => /\ dc.pc = "done"
           /\ dc.result.detected
           /\ dc.result.method = "url"
           /\ dc.result.match = dc.url.value
           /\ dc.tier = "url"
           /\ dc.frames = <<>> /\ dc.el = NoRead /\ dc.text = NoRead

C14_Witness ==
    /\ dc.pc = "done"
    /\ dc.url = Read("https://www.facebook.com/Security/2fac")
    /\ dc.result.method = "url"
    /\ dc.result.screenshot = Null

\* a frame's address matches a challenge-widget pattern
AddrMatches(f) == Has(f.addr, "value") /\ FRAME_PATTERNS(f.addr.value)
\* a frame's text, normalized, contains a challenge phrase
TextHasPhrase(f) == Has(f.body, "value") /\ HasPhrase(Normalize(f.body.value))

\* C15 (as claimed): when the frame tier is reached on a page with frames
\* where some frame's address matches a challenge-widget pattern and some
\* frame's text contains a challenge phrase, the method is frame_url.
C15_FrameUrlFirst ==
    (/\ dc.pc = "done"
     /\ dc.tier = "frames"
     /\ \A j \in DOMAIN dc.frames : Has(dc.frames[j].addr, "value")
     /\ \E j \in DOMAIN dc.frames : AddrMatches(dc.frames[j])
     /\ \E j \in DOMAIN dc.frames : TextHasPhrase(dc.frames[j]))
        => dc.result.method = "frame_url"

\* no frame before frame n matched by address or by text, and the address of
\* each was read without a fault
NoMatchBefore(n) ==
    \A j \in 1..(n - 1) :
        /\ Has(dc.frames[j].addr, "value")
        /\ ~AddrMatches(dc.frames[j])
        /\ ~TextHasPhrase(dc.frames[j])

\* C15 (amended): the tiers run in the order url, frames, selectors, body
\* text and the method is that of the tier the call returned from; the frame
\* tier goes through the frames in order and checks, frame by frame, the
\* address and then the text: the method is frame_url if the first frame that
\* matches at all matches by address, frame_text if it matches by text only.
C15_FrameOrder ==
    /\ (dc.pc \notin {"idle", "url"} /\ ~(dc.pc = "done" /\ dc.tier = "url"))
          => ~UrlTier(dc.url)
    /\ dc.pc = "frame" => NoMatchBefore(dc.k)
    /\ (dc.pc = "done" /\ dc.tier = "frames")
          => /\ NoMatchBefore(dc.at)
             /\ dc.result.detected
             /\ dc.result.match = dc.frames[dc.at].addr.value
             /\ IF AddrMatches(dc.frames[dc.at])
                THEN dc.result.method = "frame_url"
                ELSE dc.result.method = "frame_text" /\ TextHasPhrase(dc.frames[dc.at])
    /\ (dc.pc = "selector" /\ dc.k = 1 /\ dc.frames # <<>>)
          => /\ NoMatchBefore(dc.at)
             /\ \/ Threw(dc.frames[dc.at].addr)
                \/ /\ dc.at = Len(dc.frames)
                   /\ ~AddrMatches(dc.frames[dc.at])
                   /\ ~TextHasPhrase(dc.frames[dc.at])
    /\ (dc.pc = "done" /\ dc.result.detected)
          => /\ dc.tier = "url" <=> dc.result.method = "url"
             /\ dc.tier = "frames" <=> dc.result.method \in {"frame_url", "frame_text"}
             /\ dc.tier = "selector" <=> dc.result.method \in {"selector", "selector_text"}
             /\ dc.tier = "body" <=> dc.result.method = "text"

C15_Witness ==
    /\ dc.pc = "done"
    /\ dc.tier = "frames"
    /\ Len(dc.frames) = 2
    /\ dc.at = 1
    /\ AddrMatches(dc.frames[1])
    /\ TextHasPhrase(dc.frames[2])
    /\ dc.result.method = "frame_url"

\* the two cases of a letter, told without toLowerCase
SameLetter(c, d) == c = d \/ (c \in {"a", "A"} /\ d \in {"a", "A"})

\* seg is phrase p in some letter case, each space of p a run of whitespace
RECURSIVE LooseMatch(_, _)
LooseMatch(seg, p) ==
    IF p = <<>> THEN seg = <<>>
    ELSE IF seg = <<>> THEN FALSE
    ELSE IF Head(p) = " "
    THEN IsSpace(Head(seg)) /\ (LooseMatch(Tail(seg), Tail(p)) \/ LooseMatch(Tail(seg), p))
    ELSE SameLetter(Head(seg), Head(p)) /\ LooseMatch(Tail(seg), Tail(p))

\* text t contains phrase p in some letter case and with some whitespace runs
ContainsLoosely(t, p) ==
    \E i \in 1..(Len(t) + 1), j \in 0..Len(t) : LooseMatch(SubSeq(t, i, j), p)

\* the phrases of both lists
AllPhrases ==
    {TEXT_PATTERNS_EN[j] : j \in DOMAIN TEXT_PATTERNS_EN}
    \cup {TEXT_PATTERNS_FA[j] : j \in DOMAIN TEXT_PATTERNS_FA}

\* C16: when no earlier tier matched and the body text read contains a phrase
\* of either list, in any letter case and with any whitespace runs in place of
\* its spaces, the call returns detected = true with method text.
C16_BodyPhrase ==
    (/\ dc.pc = "done"
     /\ dc.tier = "body"
     /\ Has(dc.text, "value")
     /\ \E p \in AllPhrases : ContainsLoosely(dc.text.value, p))
        => (dc.result.detected /\ dc.result.method = "text")

C16_Witness ==
    /\ dc.pc = "done"
    /\ dc.tier = "body"
    /\ dc.text = Read(<<"A", "\n", " ", "a">>)
    /\ dc.result.detected
    /\ dc.result.method = "text"
    /\ dc.result.match = <<"a", " ", "a">>

Methods == {"url", "frame_url", "frame_text", "selector", "selector_text", "text"}

\* C17 (as claimed): a result with detected = false has method = none and
\* match = null; a result with detected = true has a method of the list and a
\* match that is not null.
C17_NoneAndNull ==
    dc.pc = "done" =>
        IF ~dc.result.detected
        THEN /\ Has(dc.result, "method") /\ dc.result.method = "none"
             /\ Has(dc.result, "match") /\ dc.result.match = Null
        ELSE /\ dc.result.method \in Methods
             /\ dc.result.method # "text" => dc.result.match # Null
             /\ dc.result.method = "text" => dc.result.match \in Texts

\* C17 (amended): a result with detected = false is the object
\* { detected: false }, with no method and no match property; a result with
\* detected = true has a method of the list and a match that is not null: an
\* address, a selector, or for method text the normalized phrase.
C17_ResultShape ==
    dc.pc = "done" =>
        IF ~dc.result.detected
        THEN DOMAIN dc.result = {"detected"}
        ELSE /\ dc.result.method \in Methods
             /\ dc.result.method # "text" => dc.result.match # Null
             /\ dc.result.method = "text"
                   => dc.result.match \in {Normalize(p) : p \in AllPhrases}

C17_Witness ==
    /\ dc.pc = "done"
    /\ ~dc.result.detected
    /\ dc.tier = "body"
    /\ dc.text = Read(<<"a", "a">>)

\* C18: after the check of a selector: if an element matched an iframe
\* selector, the call has returned method selector with that selector; if an
\* element matched another selector and its text was read and, normalized,
\* contains a phrase, the call has returned method selector_text; in every
\* other case the call has not returned and goes on to the next selector, or
\* to the body text after the last.
C18_SelectorTier ==
    (dc.pc # "idle" /\ dc.tier = "selector") =>
        LET sel == SELECTOR_CANDIDATES[dc.at]
            found == dc.el = Read(TRUE)
        IN  IF found /\ IsIframeSelector(sel)
            THEN /\ dc.pc = "done"
                 /\ dc.result.detected
                 /\ dc.result.method = "selector"
                 /\ dc.result.match = sel
            ELSE IF found /\ Has(dc.text, "value") /\ HasPhrase(Normalize(dc.text.value))
            THEN /\ dc.pc = "done"
                 /\ dc.result.detected
                 /\ dc.result.method = "selector_text"
                 /\ dc.result.match = sel
            ELSE IF dc.at < Len(SELECTOR_CANDIDATES)
            THEN dc.pc = "selector" /\ dc.k = dc.at + 1
            ELSE dc.pc = "body"

C18_Witness ==
    /\ dc.pc = "selector"
    /\ dc.tier = "selector"
    /\ dc.at = 4
    /\ dc.k = 5
    /\ dc.el = Read(TRUE)
    /\ dc.text = Read(<<"a", "a">>)

\* C19: every call returns a CaptchaResult; a read that raised counts as no
\* match: the step with the fault does not return a detection and the call
\* goes on with the checks after it (a fault of the address read goes on to
\* the frames, one of the frame tier to the next frame or the selectors, one of
\* a selector to the next selector or the body text, one of the body text to
\* the not-detected result), and a call returns not-detected only after the
\* body text check.
C19_NoPropagation ==
    /\ dc.pc = "done" => (Has(dc.result, "detected") /\ dc.result.detected \in BOOLEAN)
    /\ (dc.pc \notin {"idle", "url"} /\ dc.fault)
          => /\ ~(dc.pc = "done" /\ dc.result.detected)
             /\ dc.tier = "url" => dc.pc = "frames"
             /\ dc.tier = "frames" => dc.pc \in {"frame", "selector"}
             /\ dc.tier = "selector"
                   => IF dc.at < Len(SELECTOR_CANDIDATES)
                      THEN dc.pc = "selector" /\ dc.k = dc.at + 1
                      ELSE dc.pc = "body"
             /\ dc.tier = "body" => (dc.pc = "done" /\ dc.result = NotDetected)
    /\ (dc.pc = "done" /\ ~dc.result.detected) => dc.tier = "body"

C19_Witness ==
    /\ dc.pc = "done"
    /\ dc.url = Fault
    /\ dc.faulted
    /\ dc.tier = "body"
    /\ dc.result.detected
    /\ dc.result.method = "text"

\* ---------------------------------------------------------------- findMessageInputHandle

\* the strategies whose wait succeeds on the page of the call
MatchingStrategies == {k \in DOMAIN selectors : WaitForSelector(fm.page, k) # 0}

\* C20 (as claimed): when several strategies have a visible match on the page
\* and no wait raised a fault, the call, given the budget sendMessage gives
\* it, returns the element of the first of them in list order.
C20_FirstStrategy ==
    (/\ fm.pc = "done"
     /\ fm.overallTimeout = CallerTimeout
     /\ ~fm.faulted
     /\ Cardinality(MatchingStrategies) >= 2)
        => fm.result = Handle(WaitForSelector(fm.page, Least(MatchingStrategies)))

\* C21: a call on a page where no strategy's wait finds a visible match and the
\* fallback scan has no candidate ends by returning null, never by throwing,
\* also when waits of the call threw on their timeout.
C21_NotFoundIsNull ==
    (/\ fm.pc = "done"
     /\ MatchingStrategies = {}
     /\ \A i \in DOMAIN fm.page : ~IsCandidate(fm.page[i]))
        => fm.result = NullHandle

\* a call that found nothing returned null after waits of it had timed out
C21_Witness ==
    /\ fm.pc = "done"
    /\ MatchingStrategies = {}
    /\ \A i \in DOMAIN fm.page : ~IsCandidate(fm.page[i])
    /\ fm.elapsed > 0
    /\ fm.result = NullHandle

\* C22 (as claimed): a call given the budget sendMessage gives it, in which no
\* strategy returned a handle and that returned null, has performed the
\* fallback scan exactly once.
C22_FallbackOnce ==
    (/\ fm.pc = "done"
     /\ fm.overallTimeout = CallerTimeout
     /\ ~fm.faulted
     /\ fm.result = NullHandle)
        => fm.scans = 1

\* the ranks the claim gives the candidates of the fallback scan
Score(e) ==
    IF e.kind.role = "textbox" THEN 3
    ELSE IF e.kind.aria \in {"Message", "Write a message", "payam"} THEN 2
    ELSE 1

\* the call returned an element the fallback scan found
FromFallback == fm.pc = "done" /\ fm.scans = 1 /\ fm.result # NullHandle

\* C23 (as claimed): the element the fallback scan returns has the highest
\* score of the visible candidates: no visible candidate with role textbox is
\* passed over for a plain editable region.
C23_TopRanked ==
    FromFallback =>
        \A j \in DOMAIN fm.page :
            IsCandidate(fm.page[j]) => Score(fm.page[j]) <= Score(fm.page[fm.result.element])

\* C23 (amended): the element the fallback scan returns is the first visible
\* candidate in document order, whatever its score.
C23_FirstInDocumentOrder ==
    FromFallback =>
        /\ fm.result.element \in DOMAIN fm.page
        /\ IsCandidate(fm.page[fm.result.element])
        /\ \A j \in 1..(fm.result.element - 1) : ~IsCandidate(fm.page[j])

\* the scan returned a plain editable region that precedes a candidate with
\* role textbox
C23_Witness ==
    /\ FromFallback
    /\ ~fm.faulted
    /\ Score(fm.page[fm.result.element]) = 1
    /\ \E j \in DOMAIN fm.page :
        j > fm.result.element /\ IsCandidate(fm.page[j]) /\ Score(fm.page[j]) = 3

\* ---------------------------------------------------------------- throttle

\* C24: of two calls of throttle() of which the second entered after the first
\* had returned, the second returns no earlier than one minimum interval after
\* the time the first stamped; the first call on a fresh controller returns
\* at the time it entered.
C24_BackToBack ==
    \A j \in DOMAIN th.releases :
        /\ \A i \in 1..th.releases[j].seen :
               th.releases[j].at >= th.releases[i].at + MinMessageIntervalMs
        /\ th.releases[j].nth = 1 => th.releases[j].at = th.releases[j].entered

\* a second call entered within the interval after the first had returned, and
\* has returned
C24_Witness ==
    \E j \in DOMAIN th.releases :
        /\ th.releases[j].seen = 1
        /\ th.releases[j].nth = 2
        /\ th.releases[j].entered < th.releases[1].at + MinMessageIntervalMs
        /\ th.releases[1].nth = 1

\* C25 (as claimed): the times at which throttle() releases any two calls,
\* overlapping ones included, are at least one minimum interval apart.
C25_Spacing ==
    \A i, j \in DOMAIN th.releases :
        i < j => th.releases[j].at >= th.releases[i].at + MinMessageIntervalMs

\* C26: a step changes _lastActionAt only if a call of throttle() returns in
\* it, and every step in which a call of throttle() returns, having waited or
\* not, leaves _lastActionAt equal to the time of the return; the other
\* operations leave it as it was.
C26_OnlyThrottleStamps ==
    [][/\ th'.lastActionAt # th.lastActionAt => Len(th'.releases) = Len(th.releases) + 1
       /\ Len(th'.releases) = Len(th.releases) + 1 =>
              /\ th'.lastActionAt = th.now
              /\ th'.releases[Len(th'.releases)].at = th.now
       /\ th'.lastOp # th.lastOp => th'.lastActionAt = th.lastActionAt]_vars

\* another operation has run, later than the last return of throttle(), and
\* _lastActionAt is still the time of that return; one call had waited
C26_Witness ==
    /\ th.lastOp # "none"
    /\ th.releases # <<>>
    /\ th.lastActionAt = th.releases[Len(th.releases)].at
    /\ th.now > th.lastActionAt
    /\ \E j \in DOMAIN th.releases : th.releases[j].at > th.releases[j].entered

\* ---------------------------------------------------------------- transports

\* the last request was answered by a route that ran its controller operation
Routed == tr.last.via = "http" /\ Has(tr.last, "result")

\* C27 (as claimed): a route that ran its controller operation answers with
\* the operation's result as the body, with a 2xx status exactly when the
\* operation succeeded and a non-2xx status exactly when it failed.
C27_StatusMirrorsResult ==
    Routed =>
        /\ tr.last.body = tr.last.result
        /\ tr.last.status \in 200..299 <=> IsSuccess(tr.last.result)
        /\ tr.last.status \notin 200..299 <=> IsFailure(tr.last.result)

\* C28 (as claimed): a command is executed only for a caller that presented
\* the configured token.
C28_TokenChecked ==
    tr.last.executed => tr.last.token = "secret"

\* ---------------------------------------------------------------- session store

\* the file the last load read is missing, unreadable, or not valid JSON
BadFile ==
    \/ ss.file.state \in {"missing", "unreadable"}
    \/ ss.file.state = "present" /\ \A v \in JsonValues : Stringify(v) # ss.file.text

\* C29: a load of a missing file, an unreadable file or a file that is not
\* valid JSON returns { ok: false, error }, throws nothing, and leaves the
\* cookies and the localStorage of the page as they were.
C29_LoadTolerates ==
    (ss.op = "load" /\ BadFile) =>
        /\ DOMAIN ss.result = {"ok", "error"}
        /\ ss.result.ok = FALSE
        /\ ss.page = ss.before

\* a load of a file that is not valid JSON, on a page that held a cookie
C29_Witness ==
    /\ ss.op = "load"
    /\ ss.file.state = "present"
    /\ BadFile
    /\ ss.before.cookies # <<>>
    /\ ss.result = LoadCatch("SyntaxError")

\* the cookies of a jar, as a set
CookieSet(j) == {j[i] : i \in DOMAIN j}

C32_NoCaptureOnSuccess ==
    (pc = "done" /\ IsSuccess(result)) => Count(log, "screenshot") = 0

\* C32 (amended): a sendMessage or sendFriendRequest call that returned
\* success has invoked no screenshot capture; a login call that returned
\* success has invoked two captures for every earlier attempt of it that ended
\* in a captcha outcome (one by detectCaptcha on detection, one by login before
\* the backoff) and no other.
C32_CaptureOnlyAtCaptcha ==
    (pc = "done" /\ IsSuccess(result)) =>
        Count(log, "screenshot") = IF op = "login" THEN 2 * Cardinality(CaptchaEnds) ELSE 0

\* a login call returned success after an attempt that ended in a captcha
C32_Witness ==
    /\ pc = "done"
    /\ op = "login"
    /\ result = [success |-> TRUE]
    /\ CaptchaEnds # {}
    /\ Count(log, "screenshot") = 2

\* ---------------------------------------------------------------- polling loop

\* the page is as the last tick of the polling loop read it
Ticked == Has(page, "invalid")

\* C34: the outcome of the polling loop is that of the first positive check of
\* the tick that ended it, in the order success marker, captcha, invalid
\* credentials; every tick the loop went on after had no positive check, and
\* the loop yields timeout only after such ticks.
C34_TickOrder ==
    /\ (pc = "login_dispatch" /\ Ticked) =>
          outcome.outcome = IF page.marker = "visible" THEN "success"
                            ELSE IF page.captcha THEN "captcha"
                            ELSE IF page.invalid THEN "invalid_credentials"
                            ELSE "timeout"
    /\ (pc = "poll" /\ ticks >= 1) =>
          page.marker # "visible" /\ ~page.captcha /\ ~page.invalid

\* a tick on a page that shows the success marker and a captcha gave success
C34_Witness ==
    /\ pc = "login_dispatch"
    /\ Ticked
    /\ page.marker = "visible"
    /\ page.captcha
    /\ outcome = [outcome |-> "success"]

\* ---------------------------------------------------------------- login: retries

\* C36: once a page operation of an attempt (the navigation, the marker query,
\* a wait for a credential field, the typing, the click) has raised a fault
\* the login call has returned the failure carrying the fault's message, and the attempt in
\* which it was raised is the last one started, whatever retries remained;
\* every attempt that was followed by another one ended in a captcha or a
\* timeout outcome.
C36_FaultNotRetried ==
    op = "login" =>
        /\ err # Null =>
              /\ pc = "done"
              /\ result = [success |-> FALSE, error |-> err]
              /\ Count(log, "attempt") = Len(ends) + 1
        /\ \A i \in DOMAIN ends :
              i < Count(log, "attempt") =>
                  \/ IsCaptchaOutcome(ends[i])
                  \/ Has(ends[i], "outcome") /\ ends[i].outcome = "timeout"

\* a fault ended a login call that had retries left
C36_Witness ==
    /\ op = "login"
    /\ pc = "done"
    /\ err = "timeout_pass"
    /\ attempt < maxRetries
    /\ result = [success |-> FALSE, error |-> "timeout_pass"]

\* ---------------------------------------------------------------- login: termination

\* the errors a login call returns from inside its retry loop
LoopErrors == {"captcha_detected", "invalid_credentials", "timeout", "unknown_outcome"}

\* the running call is a login that has not returned
LoginRunning == op = "login" /\ pc # "done"

\* C37: a login call starts at most maxRetries + 1 attempts, its attempt
\* counter never exceeds maxRetries, what it returns is a success, one of the
\* failures of the loop body or the message of a fault, and, every step of
\* the call being taken eventually, it returns.
C37_Terminates ==
    /\ [](op = "login" =>
            /\ attempt <= maxRetries
            /\ Count(log, "attempt") <= maxRetries + 1
            /\ pc = "done" =>
                  \/ IsSuccess(result)
                  \/ IsFailure(result) /\ result.error \in LoopErrors \cup {err})
    /\ (LoginRunning ~> pc = "done")

\* a login call returned after all the attempts it was allowed
C37_Witness ==
    /\ op = "login"
    /\ pc = "done"
    /\ maxRetries >= 1
    /\ attempt = maxRetries
    /\ Count(log, "attempt") = maxRetries + 1

\* ---------------------------------------------------------------- login: backoff

\* the call is about to start the attempt that follows a backoff
AfterBackoff == ut.fn = "login" /\ ut.backoff > 0

\* the part of the delay that is not jitter, for exponent e
Exponential(e) == IF 1000 * 2^e <= 15000 THEN 1000 * 2^e ELSE 15000

\* the last n events
Last(seq, n) == SubSeq(seq, Len(seq) - n + 1, Len(seq))

\* C35 (as claimed): the delay after the k-th captcha outcome of the call
\* (k = 0 for the first) is min(15000, 1000 * 2^k) plus a jitter in [0, 1000).
C35_ExponentIsCaptchaCount ==
    AfterBackoff =>
        ut.backoff - Exponential(ut.captchas - 1) \in 0..999

\* C35 (amended): the delay before the retry that follows a captcha outcome is
\* min(15000, 1000 * 2^a) plus a jitter in [0, 1000), a being the attempt
\* counter after its increment (the number of retries of the call so far,
\* after captcha or timeout, this one included); it is below 16000, and
\* storage and cookies are cleared after the delay, before the next attempt.
C35_ExponentIsAttempt ==
    AfterBackoff =>
        /\ ut.backoff - Exponential(ut.attempt) \in 0..999
        /\ ut.attempt >= ut.captchas
        /\ ut.backoff < 16000
        /\ Last(ut.log, 4) = <<"backoff", "clear_storage", "clear_cookies", "attempt">>

\* a backoff at the cap, after a captcha that followed a timeout
C35_Witness ==
    /\ AfterBackoff
    /\ ut.attempt > ut.captchas
    /\ ut.backoff = 15999

\* ---------------------------------------------------------------- humanType

\* C33 (as claimed): in both implementations a call that has a target focuses
\* it before the first keystroke, types the characters of the text one per
\* keyboard action in order, and waits after each a delay within
\* [minDelay, maxDelay], 70 to 140 ms by default.
C33_FocusTypeDelay ==
    (ut.fn = "humanType" /\ ut.pc \in {"typing", "returned"}) =>
        /\ ut.log = (IF ut.target = "handle" THEN <<>> ELSE <<"query">>)
                        \o <<"focus">> \o SubSeq(ut.text, 1, Len(ut.delays))
        /\ ut.pc = "returned" => Len(ut.delays) = Len(ut.text)
        /\ \A i \in DOMAIN ut.delays :
               ut.delays[i] >= ut.minDelay /\ ut.delays[i] <= ut.maxDelay

\* ---------------------------------------------------------------- locator budget

\* C38 (as claimed): a strategy is given a wait of at most min(2000 ms,
\* remaining budget) and is not started once the remaining budget is zero, and
\* the waits granted to the strategies and to the fallback scan never add up
\* to more than the overall timeout.
C38_GrantedWithinBudget ==
    [][/\ fm.pc = "loop" =>
            /\ fm'.granted - fm.granted <= StrategyTimeout
            /\ fm'.granted - fm.granted <= Remaining
            /\ Remaining = 0 => fm'.k = fm.k /\ fm'.granted = fm.granted
       /\ fm.pc \in {"loop", "fallback"} => fm'.granted <= fm'.overallTimeout]_vars

\* C38 (amended): a strategy is given a wait of at most min(2000 ms, remaining
\* budget) and is not started once the remaining budget is zero, and the waits
\* that ran to their timeout, together with the wait granted to the fallback
\* scan, never add up to more than the overall timeout.
C38_TimedOutWithinBudget ==
    [][/\ fm.pc = "loop" =>
            /\ fm'.granted - fm.granted <= StrategyTimeout
            /\ fm'.granted - fm.granted <= Remaining
            /\ Remaining = 0 => fm'.k = fm.k /\ fm'.granted = fm.granted
            /\ fm'.elapsed - fm.elapsed \in {0, fm'.granted - fm.granted}
            /\ fm'.elapsed <= fm'.overallTimeout
       /\ fm.pc = "fallback" =>
            fm.elapsed + (fm'.granted - fm.granted) <= fm.overallTimeout]_vars

\* a call whose strategies used up part of the budget on timeouts and whose
\* fallback scan waited out the rest
C38_Witness ==
    /\ fm.pc = "done"
    /\ fm.overallTimeout > StrategyTimeout
    /\ fm.k > 2
    /\ fm.scans = 1
    /\ ~fm.faulted
    /\ fm.granted = fm.overallTimeout
    /\ fm.result = NullHandle

\* ---------------------------------------------------------------- global search fallback

\* C39: the step of sendMessage that follows the in-app search (whether the
\* search control was missing, no row matched or a row was clicked) queries
\* the message input before anything else; once the query has answered, the
\* call navigates to the global search results exactly when the input is
\* absent, as the first thing after the query, and with the input present it
\* navigates nowhere and goes straight to locating the input.
C39_FallbackIffNoInput ==
    [][(op = "sendMessage" /\ pc = "sm_input") =>
          LET new == SubSeq(log', Len(log) + 1, Len(log')) IN
          /\ Count(log, "goto_global_search") = 0
          /\ new # <<>> => new[1] = "query_input"
          /\ Count(new, "goto_global_search") <= 1
          /\ page' # page =>
               /\ page'.input <=> Count(new, "goto_global_search") = 0
               /\ page'.input => (new = <<"query_input">> /\ pc' = "sm_locate")
               /\ ~page'.input => new[2] = "goto_global_search"]_vars

\* a row of the in-app search was clicked, the input did not appear, and the
\* call went through the global search results to the locator
C39_Witness ==
    /\ op = "sendMessage"
    /\ pc = "sm_locate"
    /\ Count(log, "click_row") = 1
    /\ Count(log, "goto_global_search") = 1
    /\ Count(log, "click_message_btn") = 1
    /\ ~page.input

\* ---------------------------------------------------------------- readiness

\* C40 (as claimed): while session initialisation has not completed, a request
\* to /login, /sendMessage or /friendRequest is refused and does not run its
\* controller operation.
C40_RefusedUntilReady ==
    (/\ tr.boot # "ready"
     /\ tr.last.via = "http"
     /\ tr.last.command \in {"/login", "/sendMessage", "/friendRequest"})
        => /\ ~tr.last.executed
           /\ tr.last.status \in {400, 503}

\* ---------------------------------------------------------------- serialization

\* C31 (as claimed): at most one operation called through the HTTP endpoints
\* drives the controller's page at any moment, and no operation performs a
\* page step while another one is driving the page.
C31_OneDriver ==
    [][/\ Cardinality({c \in Callers : tr'.inflight[c].pc = "driving"}) <= 1
       /\ \A c \in Callers :
            (tr.inflight[c].pc = "driving" /\ tr'.inflight[c].pc = "driving"
                /\ tr'.inflight[c].steps > tr.inflight[c].steps)
              => \A d \in Callers \ {c} : tr.inflight[d].pc # "driving"]_vars

====
